---- MODULE Spec2Model ----
(***************************************************************************)
(* Real-time ingestion-and-distribution pipeline of kirby:                 *)
(*   - the broadcast hub      (src/src/api/websocket_manager.py)           *)
(*   - the collector runner   (src/src/collectors/base.py, main.py)        *)
(*   - the funding/OI buffer  (src/src/collectors/hyperliquid_funding.py)  *)
(*   - the notification bridge (src/src/api/postgres_listener.py)          *)
(*   - the /ws message loop   (src/src/api/routers/websocket.py)           *)
(* Every action is one atomic segment of a coroutine: the code between two *)
(* suspension points (await of a socket, a store call or a sleep).         *)
(* Variables whose name starts with h_ are history variables: they record  *)
(* what happened and never influence the program's variables.              *)
(***************************************************************************)
EXTENDS Integers, Sequences, FiniteSets, TLC

\* ---------------------------------------------------------------- bounds
NumConns == 3
NumTopics == 2
MaxIds == 2
MaxCapacity == 2
MaxCalls == 1
NumCollectors == 2
NumCoins == 2
NumValues == 2
MaxUpdates == 3
MaxPrice == 2
MaxStartAll == 2
MaxRetries == 2
MaxAttempts == 4
MaxNotifications == 2
NumPairs == 1
NumBridgeConns == 2
MaxFailures == 1
MaxHistory == 1
NumClients == 1

Conns == 1..NumConns
Collectors == 1..NumCollectors
Coins == 1..NumCoins
Values == 1..NumValues
Topics == 1..NumTopics
\* frames of the broadcast_to_subscribers / send_to_client calls in flight
BIds == 1..MaxCalls
\* change notifications the bridge receives, numbered in arrival order
Notifications == 1..MaxNotifications
\* the broadcast_to_subscribers frame of the handler task of notification n
BridgeFrame(n) == MaxCalls + n
Frames == 1..(MaxCalls + MaxNotifications)
\* the sockets that come and go while the bridge is observed
BridgeConns == 1..NumBridgeConns
\* the starlisting_ids lists a subscribe/unsubscribe request may carry
IdLists == UNION {[1..n -> Topics] : n \in 0..MaxIds}
\* a starlisting id that the store does not know, or knows as inactive
Unknown == NumTopics + 1
\* the starlisting_ids a subscribe message may carry (schema: min_length 1)
RequestLists == UNION {[1..n -> Topics \cup {Unknown}] : n \in 1..MaxIds}
\* the sockets whose message loop is observed
Clients == 1..NumClients
\* the history counts a subscribe message may carry
Histories == 0..MaxHistory

VARIABLES
  \* ---- ConnectionManager (websocket_manager.py)
  max_connections,   \* self.max_connections
  connections,       \* self.connections: WebSocket -> set of starlisting ids
  subscribers,       \* self.subscribers: starlisting id -> set of WebSockets
  heartbeat_tasks,   \* keys of self._heartbeat_tasks
  connect_pc,        \* per socket: position/result of connect(): new, accept, true, false
  hb_pc,             \* per socket: position of _heartbeat_loop: none, sleep, send, done
  bcast,             \* per frame: a broadcast_to_subscribers or a direct send_to_client call
  h_live,            \* history: connections admitted and not yet disconnected
  h_subs,            \* history: <<conn, topic>> pairs subscribed and not yet withdrawn
  \* ---- BaseCollector / CollectorManager (collectors/base.py, collectors/main.py)
  collector_max_retries,  \* settings.collector_max_retries
  collectors,        \* CollectorManager.collectors: the registered collectors
  coll,              \* per collector: status, retry_count, last_error, _stop_event, ...
  tasks,             \* CollectorManager.tasks: one frame of BaseCollector.start per task
  start_all_pc,      \* the frame of start_all: the collectors still to initialize
  stop_all_pc,       \* the frame of stop_all: idle, gather, returned
  start_all_left,    \* how many more times the environment invokes start_all
  h_attempts,        \* history: per collector, number of connect() calls
  h_events,          \* history: per collector, which outcomes have occurred
  \* ---- HyperliquidFundingCollector (collectors/hyperliquid_funding.py)
  f_ws,              \* self.ws is not None
  funding_buffer,    \* self.funding_buffer: coin -> latest funding data, in key order
  oi_buffer,         \* self.oi_buffer: coin -> latest open-interest data, in key order
  flush_task,        \* self.flush_task and the position of its _flush_loop frame
  f_pc,              \* the run task of this collector: idle, failed, collect
  h_window,          \* history: last value received since the last boundary
  h_expect,          \* history: h_window as it was at the last boundary
  h_issued,          \* history: the upserts issued by the flush of the last boundary
  h_flush,           \* history: none, running, completed, failed, iteration_error, cancelled
  h_updates,         \* history: number of updates buffered so far
  h_unwritten,       \* history: <<kind, coin>> updated during the running flush, not issued since
  h_retry,           \* history: <<kind, coin>> buffered when a store call failed, not re-issued yet
  \* ---- HyperliquidCollector: one inbound message (collectors/hyperliquid.py)
  c_msg,             \* the message handed to the loop body of collect()
  c_out,             \* what the loop body did with it: rows upserted, exception
  \* ---- PostgresNotificationListener (api/postgres_listener.py)
  is_running,        \* self.is_running
  connection,        \* self.connection: none, open, closed (the object of a lost connection)
  listeners,         \* channels whose callback is registered on self.connection
  conn_busy,         \* who has an operation in progress on self.connection
  listener_pc,       \* the task running start(), _listen_loop and its reconnection
  store_up,          \* environment: the store is reachable
  handlers,          \* per notification: the frame of its handler task
  notify_left,       \* how many more notifications the store sends
  failures_left,     \* how many more times the transport fails
  h_delivered,       \* history: per socket, the <<notification, topic>> of each send_text
  \* ---- the /ws endpoint's message loop (api/routers/websocket.py)
  sub_pc,            \* per socket: the frame of the message loop and of handle_subscribe
  h_stream           \* history: per socket and topic, the order of historical and live records

HubVars == <<max_connections, connections, subscribers, heartbeat_tasks,
             connect_pc, hb_pc, bcast, h_live, h_subs>>

CollVars == <<collector_max_retries, collectors, coll, tasks, start_all_pc,
              stop_all_pc, start_all_left, h_attempts, h_events>>

FundVars == <<f_ws, funding_buffer, oi_buffer, flush_task, f_pc, h_window,
              h_expect, h_issued, h_flush, h_updates, h_unwritten, h_retry>>

CandleVars == <<c_msg, c_out>>

BridgeVars == <<is_running, connection, listeners, conn_busy, listener_pc,
                store_up, handlers, notify_left, failures_left, h_delivered>>

RouterVars == <<sub_pc, h_stream>>

vars == <<HubVars, CollVars, FundVars, CandleVars, BridgeVars, RouterVars>>

\* what a hub / collector / funding action leaves alone
OtherThanHub == <<CollVars, FundVars, CandleVars, BridgeVars, RouterVars>>
OtherThanColl == <<HubVars, FundVars, CandleVars, BridgeVars, RouterVars>>
OtherThanFund == <<HubVars, CollVars, CandleVars, BridgeVars, RouterVars>>
OtherThanCandle == <<HubVars, CollVars, FundVars, BridgeVars, RouterVars>>
OtherThanBridge == <<HubVars, CollVars, FundVars, CandleVars, RouterVars>>

\* ------------------------------------------------------------ hub: state
connection_count == Cardinality(DOMAIN connections)

\* mutant: the capacity test off by one
is_at_capacity_off_by_one == connection_count > max_connections

is_at_capacity == connection_count >= max_connections

get_subscriber_count(starlisting_id) ==
  IF starlisting_id \in DOMAIN subscribers
  THEN Cardinality(subscribers[starlisting_id])
  ELSE 0

\* self.subscribers as get_subscriber_count leaves it: .get(id, set()) reads
\* the defaultdict without inserting the default
subscribers_after_count(subs, starlisting_id) == subs

\* The four fields the hub's methods mutate, as one value H.
Hub ==
  [connections |-> connections, subscribers |-> subscribers,
   heartbeat_tasks |-> heartbeat_tasks, hb_pc |-> hb_pc]

SetHub(H) ==
  /\ connections' = H.connections
  /\ subscribers' = H.subscribers
  /\ heartbeat_tasks' = H.heartbeat_tasks
  /\ hb_pc' = H.hb_pc

IdleFrame ==
  [pc |-> "idle", op |-> "none", topic |-> 0, snap |-> {}, attempted |-> {},
   failed |-> {}, cur |-> 0, sent_count |-> 0, ret |-> "none", expected |-> {}]

InitHub ==
  /\ max_connections \in 1..MaxCapacity
  /\ connections = <<>>
  /\ subscribers = <<>>
  /\ heartbeat_tasks = {}
  /\ connect_pc = [c \in Conns |-> "new"]
  /\ hb_pc = [c \in Conns |-> "none"]
  /\ bcast = [b \in Frames |-> IdleFrame]
  /\ h_live = {}
  /\ h_subs = {}

\* history bookkeeping of a disconnect() of every connection in S
GhostDisconnect(S) ==
  /\ h_live' = h_live \ S
  /\ h_subs' = {p \in h_subs : p[1] \notin S}

\* ------------------------------------------------- hub: pure method bodies
\* mutant: a subscriber set that empties keeps its entry
DiscardSubscriber_keeps_empty(subs, starlisting_id, ws) ==
  IF starlisting_id \in DOMAIN subs
  THEN [subs EXCEPT ![starlisting_id] = @ \ {ws}]
  ELSE subs

\* mutant: the socket is left in the topic's subscriber set
DiscardSubscriber_skipped(subs, starlisting_id, ws) == subs

\* discard ws from one topic's subscriber set, deleting the set when it empties
DiscardSubscriber(subs, starlisting_id, ws) ==
  IF starlisting_id \in DOMAIN subs
  THEN LET s == subs[starlisting_id] \ {ws}
       IN IF s = {}
          THEN [x \in DOMAIN subs \ {starlisting_id} |-> subs[x]]
          ELSE [subs EXCEPT ![starlisting_id] = s]
  ELSE subs

RECURSIVE DiscardFromAll(_, _, _)
DiscardFromAll(subs, ids, ws) ==
  IF ids = {} THEN subs
  ELSE LET id == CHOOSE x \in ids : TRUE
       IN DiscardFromAll(DiscardSubscriber(subs, id, ws), ids \ {id}, ws)

\* mutant: no early return for an unknown socket
disconnect_unguarded(H, ws) ==
  [connections |-> [c \in DOMAIN H.connections \ {ws} |-> H.connections[c]],
   subscribers |-> [t \in {x \in DOMAIN H.subscribers : H.subscribers[x] # {ws}} |->
                      H.subscribers[t] \ {ws}],
   heartbeat_tasks |-> H.heartbeat_tasks \ {ws},
   hb_pc |-> [H.hb_pc EXCEPT ![ws] = "done"]]

\* mutant: the heartbeat task is neither cancelled nor forgotten
disconnect_keeps_heartbeat(H, ws) ==
  IF ws \notin DOMAIN H.connections THEN H
  ELSE [connections |-> [c \in DOMAIN H.connections \ {ws} |-> H.connections[c]],
        subscribers |-> DiscardFromAll(H.subscribers, H.connections[ws], ws),
        heartbeat_tasks |-> H.heartbeat_tasks,
        hb_pc |-> H.hb_pc]

\* ConnectionManager.disconnect
disconnect(H, ws) ==
  IF ws \notin DOMAIN H.connections THEN H
  ELSE [connections |-> [c \in DOMAIN H.connections \ {ws} |-> H.connections[c]],
        subscribers |-> DiscardFromAll(H.subscribers, H.connections[ws], ws),
        heartbeat_tasks |-> H.heartbeat_tasks \ {ws},
        hb_pc |-> IF ws \in H.heartbeat_tasks
                  THEN [H.hb_pc EXCEPT ![ws] = "done"]
                  ELSE H.hb_pc]

\* mutant: a failed write leaves the socket connected
send_to_client_no_cleanup(H, ws, ok) == H

\* the hub after send_to_client: as it was when send_text returned, with the
\* socket disconnected when send_text raised
send_to_client(H, ws, ok) == IF ok THEN H ELSE disconnect(H, ws)

\* mutant: the sockets whose write failed are left connected
disconnect_all_none(H, failed_websockets) == H

RECURSIVE disconnect_all(_, _)
disconnect_all(H, failed_websockets) ==
  IF failed_websockets = {} THEN H
  ELSE LET ws == CHOOSE x \in failed_websockets : TRUE
       IN disconnect_all(disconnect(H, ws), failed_websockets \ {ws})

\* mutant: the topic -> connections index is not updated
subscribe_one_conn_index_only(H, ws, starlisting_id) ==
  [H EXCEPT !.connections = [H.connections EXCEPT ![ws] = @ \cup {starlisting_id}]]

\* one iteration of subscribe's loop
subscribe_one(H, ws, starlisting_id) ==
  [H EXCEPT
     !.connections = [H.connections EXCEPT ![ws] = @ \cup {starlisting_id}],
     !.subscribers =
        [t \in DOMAIN H.subscribers \cup {starlisting_id} |->
           (IF t \in DOMAIN H.subscribers THEN H.subscribers[t] ELSE {})
             \cup (IF t = starlisting_id THEN {ws} ELSE {})]]

RECURSIVE subscribe_loop(_, _, _)
subscribe_loop(H, ws, ids) ==
  IF ids = <<>> THEN H
  ELSE subscribe_loop(subscribe_one(H, ws, Head(ids)), ws, Tail(ids))

\* mutant: the loop runs for a socket that is not connected
subscribe_unguarded(H, ws, ids) == subscribe_loop(H, ws, ids)

\* subscribe(): returns at once for a socket that is not in self.connections
subscribe(H, ws, ids) ==
  IF ws \notin DOMAIN H.connections THEN H ELSE subscribe_loop(H, ws, ids)

\* mutant: the connection stays in the topic's subscriber set
unsubscribe_one_keeps_subscriber(H, ws, starlisting_id) ==
  [H EXCEPT !.connections = [H.connections EXCEPT ![ws] = @ \ {starlisting_id}]]

\* one iteration of unsubscribe's loop
unsubscribe_one(H, ws, starlisting_id) ==
  [H EXCEPT
     !.connections = [H.connections EXCEPT ![ws] = @ \ {starlisting_id}],
     !.subscribers = DiscardSubscriber(H.subscribers, starlisting_id, ws)]

RECURSIVE unsubscribe_loop(_, _, _)
unsubscribe_loop(H, ws, ids) ==
  IF ids = <<>> THEN H
  ELSE unsubscribe_loop(unsubscribe_one(H, ws, Head(ids)), ws, Tail(ids))

\* unsubscribe(): returns at once for a socket that is not in self.connections
unsubscribe(H, ws, ids) ==
  IF ws \notin DOMAIN H.connections THEN H ELSE unsubscribe_loop(H, ws, ids)

Range(s) == {s[i] : i \in DOMAIN s}

\* ---------------------------------------------------------- hub: actions
\* connect(), up to `await websocket.accept()`
ConnectCall(c) ==
  /\ connect_pc[c] = "new"
  /\ connect_pc' = [connect_pc EXCEPT ![c] = IF is_at_capacity THEN "false" ELSE "accept"]
  /\ UNCHANGED <<max_connections, connections, subscribers, heartbeat_tasks,
                 hb_pc, bcast, h_live, h_subs>>
  /\ UNCHANGED OtherThanHub

\* connect(), after accept() returned: register, start the heartbeat task
ConnectAccepted(c) ==
  /\ connect_pc[c] = "accept"
  /\ connect_pc' = [connect_pc EXCEPT ![c] = "true"]
  /\ connections' = [x \in DOMAIN connections \cup {c} |->
                       IF x = c THEN {} ELSE connections[x]]
  /\ heartbeat_tasks' = heartbeat_tasks \cup {c}
  /\ hb_pc' = [hb_pc EXCEPT ![c] = "sleep"]
  /\ h_live' = h_live \cup {c}
  /\ UNCHANGED <<max_connections, subscribers, bcast, h_subs>>
  /\ UNCHANGED OtherThanHub

Disconnect(c) ==
  /\ SetHub(disconnect(Hub, c))
  /\ GhostDisconnect({c})
  /\ UNCHANGED <<max_connections, connect_pc, bcast>>
  /\ UNCHANGED OtherThanHub

Subscribe(c, ids) ==
  /\ SetHub(subscribe(Hub, c, ids))
  /\ h_subs' = IF c \in h_live THEN h_subs \cup {<<c, t>> : t \in Range(ids)} ELSE h_subs
  /\ UNCHANGED <<max_connections, connect_pc, bcast, h_live>>
  /\ UNCHANGED OtherThanHub

Unsubscribe(c, ids) ==
  /\ SetHub(unsubscribe(Hub, c, ids))
  /\ h_subs' = h_subs \ {<<c, t>> : t \in Range(ids)}
  /\ UNCHANGED <<max_connections, connect_pc, bcast, h_live>>
  /\ UNCHANGED OtherThanHub

\* broadcast_to_subscribers in frame b, up to the first `await websocket.send_text`
BroadcastStart(b, t) ==
  LET expected == {c \in Conns : <<c, t>> \in h_subs}
  IN IF t \notin DOMAIN subscribers \/ subscribers[t] = {}
     THEN bcast' = [bcast EXCEPT
                      ![b] = [IdleFrame EXCEPT !.pc = "done", !.op = "broadcast",
                                               !.topic = t, !.expected = expected]]
     ELSE \E ws \in subscribers[t] :
            bcast' = [bcast EXCEPT
                        ![b] = [IdleFrame EXCEPT
                                  !.pc = "write", !.op = "broadcast", !.topic = t,
                                  !.snap = subscribers[t], !.attempted = {ws},
                                  !.cur = ws, !.expected = expected]]

BroadcastCall(b, t) ==
  /\ bcast[b].pc = "idle"
  /\ BroadcastStart(b, t)
  /\ UNCHANGED <<max_connections, connections, subscribers, heartbeat_tasks,
                 connect_pc, hb_pc, h_live, h_subs>>
  /\ UNCHANGED OtherThanHub

\* one send_text finished (ok or raised); then the next one starts, or the loop
\* is over and every failed socket is disconnected before the call returns;
\* `returned`: the awaiting caller resumes in the same step and the frame is gone
BroadcastWrite(b, ok, returned) ==
  /\ bcast[b].pc = "write"
  /\ bcast[b].op = "broadcast"
  /\ LET f == bcast[b]
         sent == IF ok THEN f.sent_count + 1 ELSE f.sent_count
         failed == IF ok THEN f.failed ELSE f.failed \cup {f.cur}
         rest == f.snap \ f.attempted
     IN IF rest # {}
        THEN /\ \E ws \in rest :
                  bcast' = [bcast EXCEPT
                              ![b] = [f EXCEPT !.sent_count = sent, !.failed = failed,
                                               !.cur = ws, !.attempted = @ \cup {ws}]]
             /\ UNCHANGED <<connections, subscribers, heartbeat_tasks, hb_pc,
                            h_live, h_subs>>
        ELSE /\ bcast' = [bcast EXCEPT
                            ![b] = IF returned THEN IdleFrame
                                   ELSE [f EXCEPT !.sent_count = sent, !.failed = failed,
                                                  !.cur = 0, !.snap = {}, !.pc = "done"]]
             /\ SetHub(disconnect_all(Hub, failed))
             /\ GhostDisconnect(failed)
  /\ UNCHANGED <<max_connections, connect_pc>>

BroadcastWriteDone(b, ok) ==
  /\ BroadcastWrite(b, ok, FALSE)
  /\ UNCHANGED OtherThanHub

\* the caller takes the value returned by the call
CallReturn(b) ==
  /\ bcast[b].pc = "done"
  /\ bcast' = [bcast EXCEPT ![b] = IdleFrame]
  /\ UNCHANGED <<max_connections, connections, subscribers, heartbeat_tasks,
                 connect_pc, hb_pc, h_live, h_subs>>
  /\ UNCHANGED OtherThanHub

\* send_to_client called directly (acks, errors, history), up to send_text
SendCall(b, c) ==
  /\ bcast[b].pc = "idle"
  /\ connect_pc[c] = "true"
  /\ bcast' = [bcast EXCEPT ![b] = [IdleFrame EXCEPT !.pc = "write", !.op = "send", !.cur = c]]
  /\ UNCHANGED <<max_connections, connections, subscribers, heartbeat_tasks,
                 connect_pc, hb_pc, h_live, h_subs>>
  /\ UNCHANGED OtherThanHub

\* send_text finished: return True, or disconnect and return False
SendDone(b, ok) ==
  /\ bcast[b].pc = "write"
  /\ bcast[b].op = "send"
  /\ bcast' = [bcast EXCEPT ![b] = [@ EXCEPT !.pc = "done",
                                              !.ret = IF ok THEN "true" ELSE "false"]]
  /\ SetHub(send_to_client(Hub, bcast[b].cur, ok))
  /\ IF ok THEN UNCHANGED <<h_live, h_subs>> ELSE GhostDisconnect({bcast[b].cur})
  /\ UNCHANGED <<max_connections, connect_pc>>
  /\ UNCHANGED OtherThanHub

\* _heartbeat_loop: the sleep is over, the ping is handed to send_to_client
HeartbeatWake(c) ==
  /\ hb_pc[c] = "sleep"
  /\ hb_pc' = [hb_pc EXCEPT ![c] = "send"]
  /\ UNCHANGED <<max_connections, connections, subscribers, heartbeat_tasks,
                 connect_pc, bcast, h_live, h_subs>>
  /\ UNCHANGED OtherThanHub

\* mutant: a failed ping ends the loop without disconnecting the socket
HeartbeatPingDone_breaks_only(c, ok) ==
  /\ hb_pc[c] = "send"
  /\ hb_pc' = [hb_pc EXCEPT ![c] = IF ok /\ c \in DOMAIN connections THEN "sleep" ELSE "done"]
  /\ UNCHANGED <<max_connections, connections, subscribers, heartbeat_tasks,
                 connect_pc, bcast, h_live, h_subs>>
  /\ UNCHANGED OtherThanHub

\* _heartbeat_loop: the ping's send_text finished; on failure send_to_client
\* disconnects, returns False and the loop breaks; else the while test runs
HeartbeatPingDone(c, ok) ==
  /\ hb_pc[c] = "send"
  /\ IF ok
     THEN /\ hb_pc' = [hb_pc EXCEPT ![c] = IF c \in DOMAIN connections THEN "sleep" ELSE "done"]
          /\ UNCHANGED <<connections, subscribers, heartbeat_tasks, h_live, h_subs>>
     ELSE /\ LET H == send_to_client(Hub, c, FALSE)
             IN /\ connections' = H.connections
                /\ subscribers' = H.subscribers
                /\ heartbeat_tasks' = H.heartbeat_tasks
                /\ hb_pc' = [H.hb_pc EXCEPT ![c] = "done"]
          /\ GhostDisconnect({c})
  /\ UNCHANGED <<max_connections, connect_pc, bcast>>
  /\ UNCHANGED OtherThanHub

NextHub ==
  \/ \E c \in Conns : ConnectCall(c)
  \/ \E c \in Conns : ConnectAccepted(c)
  \/ \E c \in Conns : Disconnect(c)
  \/ \E c \in Conns, ids \in IdLists : Subscribe(c, ids)
  \/ \E c \in Conns, ids \in IdLists : Unsubscribe(c, ids)
  \/ \E b \in BIds, t \in Topics : BroadcastCall(b, t)
  \/ \E b \in BIds, ok \in BOOLEAN : BroadcastWriteDone(b, ok)
  \/ \E b \in BIds, c \in Conns : SendCall(b, c)
  \/ \E b \in BIds, ok \in BOOLEAN : SendDone(b, ok)
  \/ \E b \in BIds : CallReturn(b)
  \/ \E c \in Conns : HeartbeatWake(c)
  \/ \E c \in Conns, ok \in BOOLEAN : HeartbeatPingDone(c, ok)

\* ------------------------------------------ candle messages: definitions
\* A field of the raw candle as it is on the wire: a number, the text "nan",
\* any other text, or absent.
RawFields ==
  {[k |-> "num", v |-> n] : n \in (0 - 1)..MaxPrice}
    \cup {[k |-> kind, v |-> 0] : kind \in {"nan", "text", "missing"}}

Number(n) == [k |-> "num", v |-> n]

\* self.subscriptions: "<coin>_<interval>" -> starlisting id, as built by
\* _subscribe_to_candles; symbol 1 with interval 1 is the subscribed pair
subscriptions == [key \in {<<1, 1>>} |-> 1]

\* a well-formed envelope around a candle
CandleMessage(s, i, t, o, h, l, c, v) ==
  [json |-> "object", channel |-> "candle", data |-> "present",
   s |-> s, i |-> i, t |-> t, o |-> o, h |-> h, l |-> l, c |-> c, v |-> v]

GoodCandle == CandleMessage(1, 1, "ok", Number(1), Number(2), Number(1), Number(2), Number(0))

\* one message per kind of data error, and the valid candle
SampleMessages ==
  {GoodCandle,
   [GoodCandle EXCEPT !.json = "invalid"],
   [GoodCandle EXCEPT !.json = "not_object"],
   [GoodCandle EXCEPT !.channel = "other"],
   [GoodCandle EXCEPT !.data = "missing"],
   [GoodCandle EXCEPT !.data = "not_object"],
   [GoodCandle EXCEPT !.s = 0],
   [GoodCandle EXCEPT !.i = 0],
   [GoodCandle EXCEPT !.s = 2],
   [GoodCandle EXCEPT !.t = "missing"],
   [GoodCandle EXCEPT !.o = [k |-> "text", v |-> 0]],
   [GoodCandle EXCEPT !.h = Number(0)]}

\* every candle over RawFields in a well-formed envelope, for the subscribed
\* and for an unknown symbol, and the sample messages
Messages ==
  SampleMessages \cup
  {CandleMessage(s, 1, "ok", o, h, l, c, v) :
     s \in {1, 2}, o \in RawFields, h \in RawFields, l \in RawFields,
     c \in RawFields, v \in RawFields}

\* float(x) of a wire field: the exception it raises, or "none"
float_raises(x) ==
  IF x.k = "missing" THEN "KeyError" ELSE IF x.k = "text" THEN "ValueError" ELSE "none"

\* a < b on floats: false whenever one side is nan
lt(a, b) == a.k = "num" /\ b.k = "num" /\ a.v < b.v

\* normalize_candle_data(raw, source="hyperliquid"): the exception raised,
\* and the normalized candle when there is none
normalize_candle_data(raw) ==
  LET v == IF raw.v.k = "missing" THEN Number(0) ELSE raw.v
      raised == IF raw.t = "missing" THEN "KeyError"
                ELSE IF float_raises(raw.o) # "none" THEN float_raises(raw.o)
                ELSE IF float_raises(raw.h) # "none" THEN float_raises(raw.h)
                ELSE IF float_raises(raw.l) # "none" THEN float_raises(raw.l)
                ELSE IF float_raises(raw.c) # "none" THEN float_raises(raw.c)
                ELSE float_raises(v)
  IN [raised |-> raised,
      candle |-> [open |-> raw.o, high |-> raw.h, low |-> raw.l,
                  close |-> raw.c, volume |-> v]]

validate_candle(candle) ==
  LET o == candle.open  h == candle.high  l == candle.low
      c == candle.close  v == candle.volume
      le0(x) == x.k = "num" /\ x.v <= 0
  IN IF lt(h, l) THEN FALSE
     ELSE IF lt(h, o) \/ lt(h, c) THEN FALSE
     ELSE IF lt(o, l) \/ lt(c, l) THEN FALSE
     ELSE IF le0(o) \/ le0(h) \/ le0(l) \/ le0(c) THEN FALSE
     ELSE IF lt(v, Number(0)) THEN FALSE
     ELSE TRUE

\* the row handed to CandleRepository.upsert_candles by store_candles
candle_row(starlisting_id, candle) ==
  [starlisting_id |-> starlisting_id, open |-> candle.open, high |-> candle.high,
   low |-> candle.low, close |-> candle.close, volume |-> candle.volume]

\* _process_message(data): the rows it upserts, whether the store call
\* succeeded, and the exception that leaves it ("none" if it returns)
process_message(m, store_ok) ==
  LET quiet == [rows |-> <<>>, stored |-> FALSE, raised |-> "none"]
      n == normalize_candle_data(m)
  IN IF m.json = "not_object" THEN [quiet EXCEPT !.raised = "AttributeError"]
     ELSE IF m.channel # "candle" THEN quiet
     ELSE IF m.data = "missing" THEN quiet
     ELSE IF m.data = "not_object" THEN [quiet EXCEPT !.raised = "AttributeError"]
     ELSE IF m.s = 0 \/ m.i = 0 THEN quiet
     ELSE IF <<m.s, m.i>> \notin DOMAIN subscriptions THEN quiet
     ELSE IF n.raised # "none" THEN quiet
     ELSE IF ~validate_candle(n.candle) THEN quiet
     ELSE [rows |-> <<candle_row(subscriptions[<<m.s, m.i>>], n.candle)>>,
           stored |-> store_ok, raised |-> "none"]

\* mutant: an exception raised by the store call leaves the loop body
collect_one_store_error_escapes(m, store_ok) ==
  IF m.json = "invalid" THEN [rows |-> <<>>, stored |-> FALSE, raised |-> "none"]
  ELSE LET p == process_message(m, store_ok)
       IN IF p.rows # <<>> /\ ~p.stored
          THEN [p EXCEPT !.raised = "StoreError"]
          ELSE [p EXCEPT !.raised = "none"]

\* mutant: the handlers around _process_message catch JSONDecodeError only
collect_one_catches_json_only(m, store_ok) ==
  IF m.json = "invalid" THEN [rows |-> <<>>, stored |-> FALSE, raised |-> "none"]
  ELSE process_message(m, store_ok)

\* the body of collect()'s loop for one message: json.loads, _process_message
\* and the two handlers, which catch every Exception
collect_one(m, store_ok) ==
  IF m.json = "invalid" THEN [rows |-> <<>>, stored |-> FALSE, raised |-> "none"]
  ELSE [process_message(m, store_ok) EXCEPT !.raised = "none"]

NoOutcome == [rows |-> <<>>, stored |-> FALSE, raised |-> "pending"]

InitCandle(inbound) ==
  /\ c_msg \in inbound
  /\ c_out = NoOutcome

\* one inbound message goes through the loop body of collect()
CandleProcess(store_ok) ==
  /\ c_out = NoOutcome
  /\ c_out' = collect_one(c_msg, store_ok)
  /\ UNCHANGED c_msg
  /\ UNCHANGED OtherThanCandle

NextCandle == \E store_ok \in BOOLEAN : CandleProcess(store_ok)

\* ------------------------------------------------------ collectors: state
\* Collector 1 is the HyperliquidCollector (candles), collector 2 the
\* HyperliquidFundingCollector (funding rate and open interest).
IsFunding(c) == c = 2

\* A starlisting row of the store: its id, coin, interval and trading pair.
\* Two rows of one exchange differ in coin, quote currency, market type or
\* interval (uq_starlisting); rows with different quote currencies belong to
\* different trading pairs.
Starlisting(id, coin, interval, trading_pair_id) ==
  [id |-> id, coin |-> coin, interval |-> interval,
   trading_pair_id |-> trading_pair_id]

OneStarlisting == <<Starlisting(1, 1, 1, 1)>>

\* the active starlistings of the exchange: one row; two coins; one trading
\* pair at two intervals; one coin and interval with two quote currencies
StarlistingLists ==
  {OneStarlisting,
   <<Starlisting(1, 1, 1, 1), Starlisting(2, 2, 1, 2)>>,
   <<Starlisting(1, 1, 1, 1), Starlisting(2, 1, 2, 1)>>,
   <<Starlisting(1, 1, 1, 1), Starlisting(2, 1, 1, 2)>>}

\* BaseCollector.__init__ and the adapter's __init__
NewCollector ==
  [status |-> "idle", retry_count |-> 0, last_error |-> FALSE,
   last_collection_time |-> FALSE, stop_event |-> FALSE,
   connection_healthy |-> FALSE, ws |-> FALSE,
   starlistings |-> <<>>,
   subscriptions |-> {},   \* the dict, as its set of <<key, id>> items
   h_active |-> OneStarlisting,   \* the store's active rows of the exchange
   h_pending |-> 0]   \* history: connect() calls minus disconnect() calls

\* _subscribe_to_asset_contexts: unique_coins, coin -> trading pair of the
\* first starlisting with that coin, in insertion order
RECURSIVE unique_coins(_, _)
unique_coins(sl, seen) ==
  IF sl = <<>> THEN <<>>
  ELSE IF Head(sl).coin \in seen THEN unique_coins(Tail(sl), seen)
  ELSE <<<< <<Head(sl).coin>>, Head(sl).trading_pair_id >>>>
         \o unique_coins(Tail(sl), seen \cup {Head(sl).coin})

\* the <<key, id>> assignments of the subscribe loop, one per request sent:
\* "<coin>_<interval>" -> starlisting id, or coin -> trading pair id
subscribe_requests(c, sl) ==
  IF IsFunding(c) THEN unique_coins(sl, {})
  ELSE [j \in 1..Len(sl) |-> << <<sl[j].coin, sl[j].interval>>, sl[j].id >>]

\* self.subscriptions after the first k requests of the subscribe loop: a
\* later assignment to a key replaces the earlier one
subscriptions_after(c, sl, k) ==
  LET rq == subscribe_requests(c, sl)
  IN {rq[j] : j \in {n \in 1..k : \A n2 \in (n + 1)..k : rq[n2][1] # rq[n][1]}}

InitColl(registered, budget) ==
  /\ collector_max_retries \in 0..MaxRetries
  /\ collectors = registered
  /\ coll = [c \in Collectors |-> NewCollector]
  /\ tasks = <<>>
  /\ start_all_pc = [pc |-> "idle", todo |-> <<>>]
  /\ stop_all_pc = [pc |-> "idle", n |-> 0]
  /\ start_all_left = budget
  /\ h_attempts = [c \in Collectors |-> 0]
  /\ h_events = [c \in Collectors |-> {}]

\* BaseCollector.get_health: the "healthy" field
healthy(c) == coll[c].connection_healthy /\ coll[c].status = "running"

\* the registered collectors in dict (registration) order
RECURSIVE InOrder(_)
InOrder(S) ==
  IF S = {} THEN <<>>
  ELSE LET m == CHOOSE x \in S : \A y \in S : x <= y
       IN <<m>> \o InOrder(S \ {m})

\* --------------------------------------- collectors: segments of start()
\* A segment result is <<collector record, pc of the task, brk>>.

\* mutant: the while test does not read the stop event
after_disconnect_ignores_stop(K, brk) ==
  IF brk
  THEN <<[K EXCEPT !.status = "stopped"], "done", FALSE>>
  ELSE <<K, "connect", FALSE>>

\* start(), after the finally block: `break` leaves the loop, otherwise the
\* while test reads the stop event; leaving the loop sets STOPPED
after_disconnect(K, brk) ==
  IF brk \/ K.stop_event
  THEN <<[K EXCEPT !.status = "stopped"], "done", FALSE>>
  ELSE <<K, "connect", FALSE>>

\* start(), the finally block: disconnect() awaits ws.close() only if a
\* socket is held; BaseCollector.disconnect clears _connection_healthy
begin_disconnect(K, brk) ==
  LET D == [K EXCEPT !.h_pending = @ - 1]
  IN IF D.ws
     THEN <<D, "closing", brk>>
     ELSE after_disconnect([D EXCEPT !.connection_healthy = FALSE], brk)

\* start(), cancelled in the retry sleep: the finally block runs disconnect()
\* and the CancelledError then leaves start() without reaching STOPPED
cancelled_disconnect(K) ==
  LET D == [K EXCEPT !.h_pending = @ - 1]
  IN IF D.ws
     THEN <<D, "closing_raise", FALSE>>
     ELSE <<[D EXCEPT !.connection_healthy = FALSE], "done", FALSE>>

\* mutant: reaching the retry limit leaves the loop without the finally block
on_exception_break_skips_finally(K) ==
  LET E == [K EXCEPT !.status = "error", !.last_error = TRUE,
                     !.connection_healthy = FALSE]
  IN IF E.retry_count >= collector_max_retries
     THEN <<[E EXCEPT !.status = "stopped"], "done", FALSE>>
     ELSE LET R == [E EXCEPT !.retry_count = @ + 1]
          IN IF ~R.stop_event
             THEN <<R, "sleep", FALSE>>
             ELSE begin_disconnect(R, FALSE)

\* mutant: the retry limit is tested after the increment
on_exception_late_limit(K) ==
  LET E == [K EXCEPT !.status = "error", !.last_error = TRUE,
                     !.connection_healthy = FALSE,
                     !.retry_count = K.retry_count + 1]
  IN IF E.retry_count >= collector_max_retries
     THEN begin_disconnect(E, TRUE)
     ELSE IF ~E.stop_event THEN <<E, "sleep", FALSE>>
          ELSE begin_disconnect(E, FALSE)

\* start(), the `except Exception` block
on_exception(K) ==
  LET E == [K EXCEPT !.status = "error", !.last_error = TRUE,
                     !.connection_healthy = FALSE]
  IN IF E.retry_count >= collector_max_retries
     THEN begin_disconnect(E, TRUE)
     ELSE LET R == [E EXCEPT !.retry_count = @ + 1]
          IN IF ~R.stop_event
             THEN <<R, "sleep", FALSE>>
             ELSE begin_disconnect(R, FALSE)

\* BaseCollector.stop
stop(K) == [K EXCEPT !.status = "stopping", !.stop_event = TRUE]

\* apply a segment result to task i of collector c; a segment that ends in a
\* new connect() call counts the attempt (the model stops at MaxAttempts)
Apply(i, c, r, ev) ==
  /\ r[2] = "connect" => h_attempts[c] < MaxAttempts
  /\ coll' = [coll EXCEPT ![c] = IF r[2] = "connect"
                                  THEN [r[1] EXCEPT !.h_pending = @ + 1]
                                  ELSE r[1]]
  /\ tasks' = [tasks EXCEPT ![i] = [collector |-> c, pc |-> r[2], brk |-> r[3]]]
  /\ h_attempts' = [h_attempts EXCEPT ![c] = IF r[2] = "connect" THEN @ + 1 ELSE @]
  /\ h_events' = [h_events EXCEPT ![c] = @ \cup ev]

TaskIds == DOMAIN tasks

\* ------------------------------------------------- collectors: actions
\* start_all(), up to the first `await collector.initialize()`
StartAllCall ==
  /\ start_all_pc.pc = "idle"
  /\ start_all_left > 0
  /\ start_all_left' = start_all_left - 1
  /\ start_all_pc' = IF collectors = {} THEN [pc |-> "idle", todo |-> <<>>]
                     ELSE [pc |-> "init", todo |-> InOrder(collectors)]
  /\ UNCHANGED <<collector_max_retries, collectors, coll, tasks, stop_all_pc,
                 h_attempts, h_events>>
  /\ UNCHANGED OtherThanColl

\* mutant: an initialize() that raises ends start_all
StartAllInitDone_aborts(ok) ==
  /\ start_all_pc.pc = "init"
  /\ LET c == Head(start_all_pc.todo)
         rest == Tail(start_all_pc.todo)
     IN /\ tasks' = IF ok
                    THEN Append(tasks, [collector |-> c, pc |-> "created", brk |-> FALSE])
                    ELSE tasks
        /\ start_all_pc' = IF rest = <<>> \/ ~ok THEN [pc |-> "idle", todo |-> <<>>]
                           ELSE [pc |-> "init", todo |-> rest]
        /\ coll' = IF ok THEN [coll EXCEPT ![c].starlistings = coll[c].h_active]
                   ELSE coll
  /\ UNCHANGED <<collector_max_retries, collectors, stop_all_pc,
                 start_all_left, h_attempts, h_events>>
  /\ UNCHANGED OtherThanColl

\* start_all(): initialize() of the next collector returned or raised; on
\* success the run task is created; then the loop goes on
StartAllInitDone(ok) ==
  /\ start_all_pc.pc = "init"
  /\ LET c == Head(start_all_pc.todo)
         rest == Tail(start_all_pc.todo)
     IN /\ tasks' = IF ok
                    THEN Append(tasks, [collector |-> c, pc |-> "created", brk |-> FALSE])
                    ELSE tasks
        /\ start_all_pc' = IF rest = <<>> THEN [pc |-> "idle", todo |-> <<>>]
                           ELSE [pc |-> "init", todo |-> rest]
        /\ coll' = IF ok THEN [coll EXCEPT ![c].starlistings = coll[c].h_active]
                   ELSE coll
  /\ UNCHANGED <<collector_max_retries, collectors, stop_all_pc,
                 start_all_left, h_attempts, h_events>>
  /\ UNCHANGED OtherThanColl

\* mutant: the first pass enters the loop body without the while test
RunStart_ignores_stop(i) ==
  /\ tasks[i].pc = "created"
  /\ LET c == tasks[i].collector
         K == [coll[c] EXCEPT !.status = "starting"]
     IN Apply(i, c, <<K, "connect", FALSE>>, {})
  /\ UNCHANGED <<collector_max_retries, collectors, start_all_pc, stop_all_pc,
                 start_all_left>>
  /\ UNCHANGED OtherThanColl

\* start(): first run of the task: STARTING, then the first while test
RunStart(i) ==
  /\ tasks[i].pc = "created"
  /\ LET c == tasks[i].collector
         K == [coll[c] EXCEPT !.status = "starting"]
     IN Apply(i, c, IF K.stop_event
                    THEN <<[K EXCEPT !.status = "stopped"], "done", FALSE>>
                    ELSE <<K, "connect", FALSE>>, {})
  /\ UNCHANGED <<collector_max_retries, collectors, start_all_pc, stop_all_pc,
                 start_all_left>>
  /\ UNCHANGED OtherThanColl

\* mutant: a successful connect() leaves the failure counter as it is
ConnectReturn_keeps_retry_count(i, outcome) ==
  /\ tasks[i].pc = "connect"
  /\ LET c == tasks[i].collector
         K == coll[c]
         n == Len(subscribe_requests(c, K.starlistings))
     IN CASE outcome = "ok" ->
               Apply(i, c, <<[K EXCEPT !.ws = TRUE, !.connection_healthy = TRUE,
                                       !.subscriptions =
                                          subscriptions_after(c, K.starlistings, n),
                                       !.status = "running"],
                             "collect", FALSE>>, {"connect_ok"})
          [] outcome = "fail_open" ->
               Apply(i, c, on_exception(K), {"connect_failed"})
          [] outcome = "fail_subscribe" ->
               \E k \in 0..(n - 1) :
                 Apply(i, c, on_exception([K EXCEPT !.ws = TRUE,
                                             !.subscriptions =
                                                subscriptions_after(c, K.starlistings, k)]),
                       {"connect_failed"})
  /\ UNCHANGED <<collector_max_retries, collectors, start_all_pc, stop_all_pc,
                 start_all_left>>
  /\ UNCHANGED OtherThanColl

\* start(): connect() returned, or raised before / after the socket was opened
ConnectReturn(i, outcome) ==
  /\ tasks[i].pc = "connect"
  /\ LET c == tasks[i].collector
         K == coll[c]
         n == Len(subscribe_requests(c, K.starlistings))
     IN CASE outcome = "ok" ->
               Apply(i, c, <<[K EXCEPT !.ws = TRUE, !.connection_healthy = TRUE,
                                       !.subscriptions =
                                          subscriptions_after(c, K.starlistings, n),
                                       !.status = "running", !.retry_count = 0],
                             "collect", FALSE>>, {"connect_ok"})
          [] outcome = "fail_open" ->
               Apply(i, c, on_exception(K), {"connect_failed"})
          [] outcome = "fail_subscribe" ->
               \E k \in 0..(n - 1) :
                 Apply(i, c, on_exception([K EXCEPT !.ws = TRUE,
                                             !.subscriptions =
                                                subscriptions_after(c, K.starlistings, k)]),
                       {"connect_failed"})
  /\ UNCHANGED <<collector_max_retries, collectors, start_all_pc, stop_all_pc,
                 start_all_left>>
  /\ UNCHANGED OtherThanColl

\* collect(): a message arrived: leave the loop if the stop event is set,
\* otherwise run the loop body on it (a stored candle updates
\* last_collection_time); an exception leaving the body leaves collect()
Message(i, m, store_ok) ==
  /\ tasks[i].pc = "collect"
  /\ LET c == tasks[i].collector
         K == coll[c]
         out == collect_one(m, store_ok)
     IN /\ c_msg' = m
        /\ IF K.stop_event
           THEN /\ c_out' = NoOutcome
                /\ Apply(i, c, begin_disconnect(K, FALSE),
                         {"collect_returned", "stop_seen"})
           ELSE /\ c_out' = out
                /\ IF out.raised # "none"
                   THEN Apply(i, c, on_exception(K), {"collect_raised"})
                   ELSE Apply(i, c, <<[K EXCEPT !.last_collection_time =
                                                  @ \/ out.stored],
                                      "collect", FALSE>>,
                              IF out.rows = <<>> /\ m.channel = "candle"
                              THEN {"message_dropped"}
                              ELSE IF out.rows # <<>> /\ ~out.stored
                              THEN {"store_failed"} ELSE {})
  /\ UNCHANGED <<collector_max_retries, collectors, start_all_pc, stop_all_pc,
                 start_all_left>>
  /\ UNCHANGED <<HubVars, FundVars, BridgeVars, RouterVars>>

\* collect(): the stream ended: ConnectionClosed raised (dropped), or the
\* iteration ended normally and collect() returned
StreamClosed(i, dropped) ==
  /\ tasks[i].pc = "collect"
  /\ LET c == tasks[i].collector
         K == coll[c]
     IN IF dropped
        THEN Apply(i, c, on_exception(K), {"collect_raised"})
        ELSE Apply(i, c, begin_disconnect(K, FALSE), {"collect_returned"})
  /\ UNCHANGED <<collector_max_retries, collectors, start_all_pc, stop_all_pc,
                 start_all_left>>
  /\ UNCHANGED OtherThanColl

\* start(): the retry sleep is over; the finally block runs
SleepReturn(i) ==
  /\ tasks[i].pc = "sleep"
  /\ LET c == tasks[i].collector
     IN Apply(i, c, begin_disconnect(coll[c], FALSE), {})
  /\ UNCHANGED <<collector_max_retries, collectors, start_all_pc, stop_all_pc,
                 start_all_left>>
  /\ UNCHANGED OtherThanColl

\* disconnect(): ws.close() returned; the socket is dropped, then the loop
\* test (or the break) decides
CloseReturn(i) ==
  /\ tasks[i].pc = "closing"
  /\ LET c == tasks[i].collector
         K == [coll[c] EXCEPT !.ws = FALSE, !.subscriptions = {},
                              !.connection_healthy = FALSE]
     IN Apply(i, c, after_disconnect(K, tasks[i].brk), {})
  /\ UNCHANGED <<collector_max_retries, collectors, start_all_pc, stop_all_pc,
                 start_all_left>>
  /\ UNCHANGED OtherThanColl

\* the run task is cancelled: CancelledError is raised at the await where it
\* is suspended. In connect() or collect() the loop breaks, the finally block
\* disconnects and STOPPED is set; in the retry sleep the finally block
\* disconnects and the error leaves start(); in ws.close() the socket is
\* dropped by disconnect()'s own finally and the error leaves start(). A
\* cancelled connect() may or may not have opened the socket.
Cancel(i, opened) ==
  /\ tasks[i].pc # "done"
  /\ LET c == tasks[i].collector
         K == coll[c]
         pc == tasks[i].pc
         n == Len(subscribe_requests(c, K.starlistings))
     IN /\ pc # "connect" => opened = K.ws
        /\ \E k \in 0..n :
             /\ (pc # "connect" \/ ~opened) => k = 0
             /\ k < n \/ k = 0
             /\ Apply(i, c,
                   CASE pc = "created" -> <<K, "done", FALSE>>
                     [] pc = "connect" ->
                          begin_disconnect(
                            IF opened
                            THEN [K EXCEPT !.ws = TRUE,
                                           !.subscriptions =
                                              subscriptions_after(c, K.starlistings, k)]
                            ELSE K, TRUE)
                     [] pc = "collect" -> begin_disconnect(K, TRUE)
                     [] pc = "sleep" -> cancelled_disconnect(K)
                     [] OTHER -> <<[K EXCEPT !.ws = FALSE, !.subscriptions = {}],
                                   "done", FALSE>>,
                   {"cancelled"})
  /\ UNCHANGED <<collector_max_retries, collectors, start_all_pc, stop_all_pc,
                 start_all_left>>
  /\ UNCHANGED OtherThanColl

\* disconnect() called while the CancelledError propagates: ws.close()
\* returned, the socket is dropped and start() ends with the error
CancelledCloseReturn(i) ==
  /\ tasks[i].pc = "closing_raise"
  /\ LET c == tasks[i].collector
     IN Apply(i, c, <<[coll[c] EXCEPT !.ws = FALSE, !.subscriptions = {},
                                      !.connection_healthy = FALSE],
                      "done", FALSE>>, {})
  /\ UNCHANGED <<collector_max_retries, collectors, start_all_pc, stop_all_pc,
                 start_all_left>>
  /\ UNCHANGED OtherThanColl

\* BaseCollector.stop called on one collector
Stop(c) ==
  /\ c \in collectors
  /\ coll' = [coll EXCEPT ![c] = stop(coll[c])]
  /\ UNCHANGED <<collector_max_retries, collectors, tasks, start_all_pc,
                 stop_all_pc, start_all_left, h_attempts, h_events>>
  /\ UNCHANGED OtherThanColl

\* stop_all(): stop() every collector, then wait in gather for the tasks
StopAllCall ==
  /\ stop_all_pc.pc = "idle"
  /\ coll' = [c \in Collectors |-> IF c \in collectors THEN stop(coll[c]) ELSE coll[c]]
  /\ stop_all_pc' = IF tasks = <<>> THEN [pc |-> "returned", n |-> 0]
                    ELSE [pc |-> "gather", n |-> Len(tasks)]
  /\ UNCHANGED <<collector_max_retries, collectors, tasks, start_all_pc,
                 start_all_left, h_attempts, h_events>>
  /\ UNCHANGED OtherThanColl

\* stop_all(): every gathered task has finished
StopAllReturn ==
  /\ stop_all_pc.pc = "gather"
  /\ \A i \in 1..stop_all_pc.n : tasks[i].pc = "done"
  /\ stop_all_pc' = [stop_all_pc EXCEPT !.pc = "returned"]
  /\ UNCHANGED <<collector_max_retries, collectors, coll, tasks, start_all_pc,
                 start_all_left, h_attempts, h_events>>
  /\ UNCHANGED OtherThanColl

RunStep(i) ==
  \/ RunStart(i)
  \/ \E outcome \in {"ok", "fail_open", "fail_subscribe"} : ConnectReturn(i, outcome)
  \/ SleepReturn(i)
  \/ CloseReturn(i)

StreamEvent(i) ==
  \/ \E m \in SampleMessages, store_ok \in BOOLEAN : Message(i, m, store_ok)
  \/ \E dropped \in BOOLEAN : StreamClosed(i, dropped)

NextColl ==
  \/ StartAllCall
  \/ \E ok \in BOOLEAN : StartAllInitDone(ok)
  \/ \E i \in TaskIds : RunStart(i)
  \/ \E i \in TaskIds, outcome \in {"ok", "fail_open", "fail_subscribe"} :
        ConnectReturn(i, outcome)
  \/ \E i \in TaskIds, m \in SampleMessages, store_ok \in BOOLEAN :
        Message(i, m, store_ok)
  \/ \E i \in TaskIds, dropped \in BOOLEAN : StreamClosed(i, dropped)
  \/ \E i \in TaskIds : SleepReturn(i)
  \/ \E i \in TaskIds : CloseReturn(i)
  \/ \E c \in Collectors : Stop(c)
  \/ StopAllCall
  \/ StopAllReturn

\* ------------------------------------------- funding/OI buffer: definitions
Kinds == {"funding", "oi"}

NoneSeen == [k \in Kinds |-> [c \in Coins |-> 0]]

NoFlushTask == [pc |-> "none", idx |-> 0, size |-> 0]
FlushSleeping == [pc |-> "sleep", idx |-> 0, size |-> 0]

InitFund ==
  /\ f_ws = FALSE
  /\ funding_buffer = <<>>
  /\ oi_buffer = <<>>
  /\ flush_task = NoFlushTask
  /\ f_pc = "idle"
  /\ h_window = NoneSeen
  /\ h_expect = NoneSeen
  /\ h_issued = <<>>
  /\ h_flush = "none"
  /\ h_updates = 0
  /\ h_unwritten = {}
  /\ h_retry = {}

\* buf[coin] = data: a key already present keeps its place in the iteration
\* order and gets the new value, a new key goes to the end
buffer_put(buf, coin, data) ==
  IF \E j \in DOMAIN buf : buf[j].coin = coin
  THEN [j \in DOMAIN buf |->
          IF buf[j].coin = coin THEN [coin |-> coin, data |-> data] ELSE buf[j]]
  ELSE Append(buf, [coin |-> coin, data |-> data])

\* the upsert issued for the item the iterator of a buffer yields at position j
upsert(kind, buf, j) == <<kind, buf[j].coin, buf[j].data>>

\* _flush_buffers from "self.logger.info(Flushed ...)" on: both buffers are
\* cleared and the frame is back in the sleep of _flush_loop
flush_finish(issued) ==
  [task |-> FlushSleeping, issued |-> issued, result |-> "completed", clear |-> TRUE]

\* _flush_buffers from "if self.oi_buffer:" on, up to the next store call
flush_open_interest(issued) ==
  IF oi_buffer # <<>>
  THEN [task |-> [pc |-> "oi_exec", idx |-> 1, size |-> Len(oi_buffer)],
        issued |-> Append(issued, upsert("oi", oi_buffer, 1)),
        result |-> "running", clear |-> FALSE]
  ELSE flush_finish(issued)

\* _flush_buffers from "if self.funding_buffer:" on, up to the next store call
flush_funding(issued) ==
  IF funding_buffer # <<>>
  THEN [task |-> [pc |-> "funding_exec", idx |-> 1, size |-> Len(funding_buffer)],
        issued |-> Append(issued, upsert("funding", funding_buffer, 1)),
        result |-> "running", clear |-> FALSE]
  ELSE flush_open_interest(issued)

\* the except branch of _flush_buffers: logged, buffers kept, back to the sleep;
\* why is "failed" for a store call that raised and "iteration_error" for the
\* RuntimeError of a dict that changed size during iteration
flush_failed(issued, why) ==
  [task |-> FlushSleeping, issued |-> issued, result |-> why, clear |-> FALSE]

\* the for loop over buffer.items() resumes after a store call returned: the
\* iterator raises if the dict changed size, else yields the next item with
\* the value the key has now, else the loop is over
flush_next(kind, buf, issued) ==
  IF Len(buf) # flush_task.size THEN flush_failed(issued, "iteration_error")
  ELSE IF flush_task.idx < flush_task.size
  THEN [task |-> [flush_task EXCEPT !.idx = @ + 1],
        issued |-> Append(issued, upsert(kind, buf, flush_task.idx + 1)),
        result |-> "running", clear |-> FALSE]
  ELSE IF kind = "funding" THEN flush_open_interest(issued)
  ELSE flush_finish(issued)

BufferedKeys ==
  {<<"funding", funding_buffer[j].coin>> : j \in DOMAIN funding_buffer}
    \cup {<<"oi", oi_buffer[j].coin>> : j \in DOMAIN oi_buffer}

\* r is the result of a segment of _flush_buffers that started with n upserts
\* issued, unwritten and retry being the history sets it started with
FlushApply(r, n, unwritten, retry) ==
  /\ flush_task' = r.task
  /\ h_issued' = r.issued
  /\ h_flush' = r.result
  /\ LET new == {<<r.issued[j][1], r.issued[j][2]>> : j \in (n + 1)..Len(r.issued)}
     IN /\ h_unwritten' = unwritten \ new
        /\ h_retry' = IF r.result = "failed" THEN BufferedKeys ELSE retry \ new
  /\ funding_buffer' = IF r.clear THEN <<>> ELSE funding_buffer
  /\ oi_buffer' = IF r.clear THEN <<>> ELSE oi_buffer

\* --------------------------------------------- funding/OI buffer: actions
\* connect(): the socket is opened, the subscriptions are sent and the flush
\* task is started; or one of the first two raises
FundConnect(outcome) ==
  /\ f_pc = "idle"
  /\ f_ws' = IF outcome = "fail_open" THEN f_ws ELSE TRUE
  /\ flush_task' = IF outcome = "ok" /\ flush_task.pc = "none"
                   THEN FlushSleeping ELSE flush_task
  /\ f_pc' = IF outcome = "ok" THEN "collect" ELSE "failed"
  /\ UNCHANGED <<funding_buffer, oi_buffer, h_window, h_expect, h_issued, h_flush,
                 h_updates, h_unwritten, h_retry>>
  /\ UNCHANGED OtherThanFund

\* collect(): an activeAssetCtx message for a known coin; funding and oi are
\* the extracted values, 0 where the extraction gives None
FundUpdate(coin, funding, oi) ==
  /\ f_pc = "collect"
  /\ <<funding, oi>> # <<0, 0>>
  /\ h_updates < MaxUpdates
  /\ h_updates' = h_updates + 1
  /\ h_unwritten' = IF flush_task.pc \in {"funding_exec", "oi_exec"}
                    THEN h_unwritten \cup {<<"funding", coin>> : x \in {funding} \ {0}}
                                     \cup {<<"oi", coin>> : x \in {oi} \ {0}}
                    ELSE h_unwritten
  /\ funding_buffer' = IF funding # 0 THEN buffer_put(funding_buffer, coin, funding)
                       ELSE funding_buffer
  /\ oi_buffer' = IF oi # 0 THEN buffer_put(oi_buffer, coin, oi) ELSE oi_buffer
  /\ h_window' = [h_window EXCEPT
                    !["funding"][coin] = IF funding # 0 THEN funding ELSE @,
                    !["oi"][coin] = IF oi # 0 THEN oi ELSE @]
  /\ UNCHANGED <<f_ws, flush_task, f_pc, h_expect, h_issued, h_flush, h_retry>>
  /\ UNCHANGED OtherThanFund

\* mutant: disconnect() closes the socket and keeps the buffers
FundDisconnect_keeps_buffers ==
  /\ f_pc \in {"collect", "failed"}
  /\ flush_task' = NoFlushTask
  /\ h_flush' = IF h_flush = "running" THEN "cancelled" ELSE h_flush
  /\ f_ws' = FALSE
  /\ f_pc' = "idle"
  /\ h_window' = NoneSeen
  /\ h_unwritten' = {}
  /\ h_retry' = {}
  /\ UNCHANGED <<funding_buffer, oi_buffer, h_expect, h_issued, h_updates>>
  /\ UNCHANGED OtherThanFund

\* mutant: disconnect() leaves the flush task running
FundDisconnect_keeps_flush_task ==
  /\ f_pc \in {"collect", "failed"}
  /\ f_ws' = FALSE
  /\ funding_buffer' = IF f_ws THEN <<>> ELSE funding_buffer
  /\ oi_buffer' = IF f_ws THEN <<>> ELSE oi_buffer
  /\ f_pc' = "idle"
  /\ h_window' = NoneSeen
  /\ h_unwritten' = {}
  /\ h_retry' = {}
  /\ UNCHANGED <<flush_task, h_flush, h_expect, h_issued, h_updates>>
  /\ UNCHANGED OtherThanFund

\* disconnect(), called by start() when connect() or collect() ended: the
\* flush task is cancelled; if a socket is open it is closed and both buffers
\* are cleared
FundDisconnect ==
  /\ f_pc \in {"collect", "failed"}
  /\ flush_task' = NoFlushTask
  /\ h_flush' = IF h_flush = "running" THEN "cancelled" ELSE h_flush
  /\ f_ws' = FALSE
  /\ funding_buffer' = IF f_ws THEN <<>> ELSE funding_buffer
  /\ oi_buffer' = IF f_ws THEN <<>> ELSE oi_buffer
  /\ f_pc' = "idle"
  /\ h_window' = NoneSeen
  /\ h_unwritten' = {}
  /\ h_retry' = {}
  /\ UNCHANGED <<h_expect, h_issued, h_updates>>
  /\ UNCHANGED OtherThanFund

\* _flush_loop: the sleep to the minute boundary is over; _flush_buffers runs
\* up to its first store call, or returns at once when both buffers are empty
FlushWake ==
  /\ flush_task.pc = "sleep"
  /\ h_expect' = h_window
  /\ h_window' = NoneSeen
  /\ IF funding_buffer = <<>> /\ oi_buffer = <<>>
     THEN FlushApply([task |-> FlushSleeping, issued |-> <<>>,
                      result |-> "completed", clear |-> FALSE], 0, {}, {})
     ELSE FlushApply(flush_funding(<<>>), 0, {},
                     IF h_flush = "failed" THEN h_retry ELSE {})
  /\ UNCHANGED <<f_ws, f_pc, h_updates>>
  /\ UNCHANGED OtherThanFund

\* _flush_buffers: a pool.execute returned or raised
FlushExecReturn(ok) ==
  /\ flush_task.pc \in {"funding_exec", "oi_exec"}
  /\ FlushApply(IF ~ok THEN flush_failed(h_issued, "failed")
                ELSE IF flush_task.pc = "funding_exec"
                THEN flush_next("funding", funding_buffer, h_issued)
                ELSE flush_next("oi", oi_buffer, h_issued),
                Len(h_issued), h_unwritten, h_retry)
  /\ UNCHANGED <<f_ws, f_pc, h_window, h_expect, h_updates>>
  /\ UNCHANGED OtherThanFund

NextFund ==
  \/ \E outcome \in {"ok", "fail_open", "fail_subscribe"} : FundConnect(outcome)
  \/ \E coin \in Coins, funding \in 0..NumValues, oi \in 0..NumValues :
        FundUpdate(coin, funding, oi)
  \/ FundDisconnect
  \/ FlushWake
  \/ \E ok \in BOOLEAN : FlushExecReturn(ok)

\* ------------------------------------------------ notification bridge: state
Channels == {"candle_updates", "funding_updates", "oi_updates"}
Pairs == 1..NumPairs

\* rows of the starlistings table: the active topics of each trading pair
pair_topics(trading_pair_id) == IF trading_pair_id = 1 THEN Topics ELSE {}

\* the orders in which a SELECT without ORDER BY may return the rows of S
RECURSIVE Orders(_)
Orders(S) ==
  IF S = {} THEN {<<>>}
  ELSE UNION {{<<x>> \o rest : rest \in Orders(S \ {x})} : x \in S}

\* who has an operation in progress on self.connection: nobody, the handler
\* task of notification n, or the task running start(), stop() or the keep-alive
Free == 0
Listener == MaxNotifications + 1

\* what a NOTIFY payload may look like to _notification_callback
Payloads == {"ok", "malformed", "bad_time"}

NoHandler ==
  [pc |-> "none", channel |-> "none", key |-> 0, time_ok |-> TRUE, todo |-> <<>>,
   cur |-> 0, queries |-> 0, undisturbed |-> TRUE, subs0 |-> <<>>,
   quiet |-> FALSE,
   overlap |-> FALSE]   \* history: it called the connection while it was busy

InitBridge(notifications, failures) ==
  /\ is_running = FALSE
  /\ connection = "none"
  /\ listeners = {}
  /\ conn_busy = Free
  /\ listener_pc = "init"
  /\ store_up = TRUE
  /\ handlers = [n \in Notifications |-> NoHandler]
  /\ notify_left = notifications
  /\ failures_left = failures
  /\ h_delivered = [c \in Conns |-> <<>>]

\* ------------------------------------- notification bridge: start, stop, loop
\* start() up to `await asyncpg.connect`; is_running is False in every caller
start_call(pc) ==
  /\ listener_pc' = pc
  /\ UNCHANGED <<is_running, connection, listeners, conn_busy>>

\* the application's lifespan calls start() once
AppStart ==
  /\ listener_pc = "init"
  /\ ~is_running
  /\ start_call("app_connect")
  /\ UNCHANGED <<store_up, handlers, notify_left, failures_left, h_delivered>>
  /\ UNCHANGED OtherThanBridge

\* what a raise out of start() leaves: the application's startup fails, or the
\* except clause around the reconnection logs it and the task returns
start_raised == IF listener_pc \in {"app_connect", "app_listen"}
                THEN "start_failed" ELSE "done"

\* asyncpg.connect returned or raised; then the first add_listener is awaited
StartConnectReturn ==
  /\ listener_pc \in {"app_connect", "loop_connect"}
  /\ IF store_up
     THEN /\ connection' = "open"
          /\ conn_busy' = Listener
          /\ listener_pc' = IF listener_pc = "app_connect"
                            THEN "app_listen" ELSE "loop_listen"
     ELSE /\ listener_pc' = start_raised
          /\ UNCHANGED <<connection, conn_busy>>
  /\ UNCHANGED <<is_running, listeners, store_up, handlers, notify_left,
                 failures_left, h_delivered>>
  /\ UNCHANGED OtherThanBridge

\* the three add_listener calls returned, or one of them raised
StartListenReturn ==
  /\ listener_pc \in {"app_listen", "loop_listen"}
  /\ conn_busy' = Free
  /\ IF store_up /\ connection = "open"
     THEN /\ listeners' = Channels
          /\ is_running' = TRUE
          /\ listener_pc' = "sleep"
     ELSE /\ listener_pc' = start_raised
          /\ UNCHANGED <<listeners, is_running>>
  /\ UNCHANGED <<connection, store_up, handlers, notify_left, failures_left,
                 h_delivered>>
  /\ UNCHANGED OtherThanBridge

\* _listen_loop: the sleep of 30 s is over; the keep-alive query is issued, or
\* raises at once on a closed or busy connection
KeepAliveWake ==
  /\ listener_pc = "sleep"
  /\ is_running
  /\ IF connection = "none"
     THEN UNCHANGED <<listener_pc, conn_busy>>
     ELSE IF connection = "open" /\ conn_busy = Free
          THEN listener_pc' = "ping" /\ conn_busy' = Listener
          ELSE listener_pc' = "retry_sleep" /\ UNCHANGED conn_busy
  /\ UNCHANGED <<is_running, connection, listeners, store_up, handlers,
                 notify_left, failures_left, h_delivered>>
  /\ UNCHANGED OtherThanBridge

KeepAliveReturn ==
  /\ listener_pc = "ping"
  /\ conn_busy' = Free
  /\ listener_pc' = IF store_up /\ connection = "open" THEN "sleep" ELSE "retry_sleep"
  /\ UNCHANGED <<is_running, connection, listeners, store_up, handlers,
                 notify_left, failures_left, h_delivered>>
  /\ UNCHANGED OtherThanBridge

\* _listen_loop's except clause after its sleep of 5 s: stop(), whose cancel of
\* the running task is swallowed at `await self.listener_task`, up to the first
\* suspension: an UNLISTEN on the open connection, or start()'s connect
RetryWake ==
  /\ listener_pc = "retry_sleep"
  /\ is_running' = FALSE
  /\ IF connection = "open"
     THEN IF conn_busy # Free
          THEN /\ listener_pc' = "done"
               /\ listeners' = listeners \ {"candle_updates"}
               /\ UNCHANGED <<connection, conn_busy>>
          ELSE /\ listener_pc' = "stop_unlisten"
               /\ conn_busy' = Listener
               /\ UNCHANGED <<connection, listeners>>
     ELSE /\ connection' = "none"
          /\ listeners' = {}
          /\ listener_pc' = "loop_connect"
          /\ UNCHANGED conn_busy
  /\ UNCHANGED <<store_up, handlers, notify_left, failures_left, h_delivered>>
  /\ UNCHANGED OtherThanBridge

\* stop()'s remove_listener calls and close() returned, then start() is called;
\* or one of them raised
StopReturn ==
  /\ listener_pc = "stop_unlisten"
  /\ conn_busy' = Free
  /\ IF store_up /\ connection = "open"
     THEN /\ connection' = "none"
          /\ listeners' = {}
          /\ listener_pc' = "loop_connect"
     ELSE /\ listener_pc' = "done"
          /\ UNCHANGED <<connection, listeners>>
  /\ UNCHANGED <<is_running, store_up, handlers, notify_left, failures_left,
                 h_delivered>>
  /\ UNCHANGED OtherThanBridge

\* the environment: the store or the transport to it fails, and comes back
TransportFailure ==
  /\ store_up
  /\ failures_left > 0
  /\ failures_left' = failures_left - 1
  /\ store_up' = FALSE
  /\ connection' = IF connection = "open" THEN "closed" ELSE connection
  /\ listeners' = {}
  /\ UNCHANGED <<is_running, conn_busy, listener_pc, handlers, notify_left,
                 h_delivered>>
  /\ UNCHANGED OtherThanBridge

StoreRecovers ==
  /\ ~store_up
  /\ store_up' = TRUE
  /\ UNCHANGED <<is_running, connection, listeners, conn_busy, listener_pc,
                 handlers, notify_left, failures_left, h_delivered>>
  /\ UNCHANGED OtherThanBridge

\* ------------------------------------------ notification bridge: handlers
subscriber_count_in(S, starlisting_id) ==
  IF starlisting_id \in DOMAIN S THEN Cardinality(S[starlisting_id]) ELSE 0

\* `if subscriber_count == 0: continue` over the starlistings still to visit
RECURSIVE skip_unsubscribed(_, _)
skip_unsubscribed(todo, S) ==
  IF todo = <<>> THEN <<>>
  ELSE IF subscriber_count_in(S, Head(todo)) > 0 THEN todo
       ELSE skip_unsubscribed(Tail(todo), S)

\* The for loop of a handler from the starlistings `todo` on, with subscriber
\* sets S, up to its next suspension: the enrichment query of the first
\* starlisting that has a subscriber. A query that cannot be sent (no
\* connection, unparseable time, connection closed or busy) makes the helper
\* return None at once, for this starlisting and for every later one.
handler_loop(h, todo, S, busy) ==
  LET live == skip_unsubscribed(todo, S)
      can_send == connection = "open" /\ busy = Free /\ h.time_ok
  IN IF live = <<>>
     THEN [h EXCEPT !.pc = "done", !.todo = <<>>, !.cur = 0]
     ELSE IF can_send
          THEN [h EXCEPT !.pc = "query", !.cur = Head(live), !.todo = Tail(live),
                         !.queries = @ + 1]
          ELSE [h EXCEPT !.pc = "done", !.todo = <<>>, !.cur = 0,
                         !.undisturbed = @ /\ connection = "open" /\ h.time_ok,
                         !.overlap = @ \/ (connection = "open" /\ h.time_ok
                                              /\ busy # Free)]

\* history kept by every step of a handler, in `undisturbed`: the payload was
\* well formed, the store served every query it was sent with the row asked
\* for, every socket took its write, and the subscriptions, whenever the
\* handler looked, were the ones in place when its notification arrived (subs0)
Observed(h) ==
  IF h.undisturbed /\ subscribers = h.subs0 THEN h
  ELSE [h EXCEPT !.undisturbed = FALSE, !.subs0 = <<>>]

\* a finished handler keeps the verdict and drops the snapshot
Finished(h) == IF h.pc = "done" THEN [h EXCEPT !.subs0 = <<>>] ELSE h

FirstUnused == CHOOSE n \in Notifications :
                 /\ handlers[n].pc = "none"
                 /\ \A k \in 1..(n - 1) : handlers[k].pc # "none"

\* the keys a notification on a channel may carry
Keys(channel) == IF channel = "candle_updates" THEN Topics ELSE Pairs

\* _notification_callback: decode the payload and create the handler task, or
\* log and return
Notify(channel, key, payload) ==
  /\ notify_left > 0
  /\ store_up
  /\ connection = "open"
  /\ channel \in listeners
  /\ key \in Keys(channel)
  /\ notify_left' = notify_left - 1
  /\ handlers' = [handlers EXCEPT
       ![FirstUnused] =
         IF payload = "malformed"
         THEN [NoHandler EXCEPT !.pc = "dropped", !.channel = channel,
                                !.key = key, !.undisturbed = FALSE]
         ELSE [NoHandler EXCEPT !.pc = "created", !.channel = channel,
                                !.key = key, !.time_ok = (payload = "ok"),
                                !.undisturbed = (payload = "ok"),
                                !.subs0 = IF payload = "ok" THEN subscribers ELSE <<>>]]
  /\ UNCHANGED <<is_running, connection, listeners, conn_busy, listener_pc,
                 store_up, failures_left, h_delivered>>
  /\ UNCHANGED OtherThanBridge

\* history: no other handler task is alive
Quiet(n) ==
  \A k \in Notifications \ {n} : handlers[k].pc \in {"none", "dropped", "done"}

\* mutant: a query that fails leaves its operation in progress on the connection
Released_never(n) == conn_busy

Released(n) == IF conn_busy = n THEN Free ELSE conn_busy

\* the handler task runs up to its first suspension; the event loop starts
\* tasks in the order of their creation
HandlerRun(n) ==
  /\ handlers[n].pc = "created"
  /\ \A k \in 1..(n - 1) : handlers[k].pc # "created"
  /\ LET h == [Observed(handlers[n]) EXCEPT !.quiet = Quiet(n)]
         next == IF h.channel = "candle_updates"
                 THEN handler_loop(h, <<h.key>>, subscribers, conn_busy)
                 ELSE IF connection = "open" /\ conn_busy = Free
                      THEN [h EXCEPT !.pc = "map_query"]
                      ELSE [h EXCEPT !.pc = "done",
                                     !.undisturbed = @ /\ connection = "open",
                                     !.overlap = @ \/ (connection = "open"
                                                          /\ conn_busy # Free)]
     IN /\ handlers' = [handlers EXCEPT ![n] = Finished(next)]
        /\ conn_busy' = IF next.pc \in {"query", "map_query"} THEN n ELSE conn_busy
  /\ UNCHANGED <<is_running, connection, listeners, listener_pc, store_up,
                 notify_left, failures_left, h_delivered>>
  /\ UNCHANGED OtherThanBridge

\* did the query of handler n reach the store and come back
QueryServed(n) == store_up /\ connection = "open" /\ conn_busy = n

\* _get_starlistings_for_trading_pair returned the rows, or [] on an error
MapReturn(n, rows) ==
  /\ handlers[n].pc = "map_query"
  /\ rows \in Orders(pair_topics(handlers[n].key))
  /\ LET h == Observed(handlers[n])
         next == IF QueryServed(n)
                 THEN handler_loop(h, rows, subscribers, Released(n))
                 ELSE [h EXCEPT !.pc = "done", !.undisturbed = FALSE]
     IN /\ handlers' = [handlers EXCEPT ![n] = Finished(next)]
        /\ conn_busy' = IF next.pc = "query" THEN n ELSE Released(n)
  /\ UNCHANGED <<is_running, connection, listeners, listener_pc, store_up,
                 notify_left, failures_left, h_delivered>>
  /\ UNCHANGED OtherThanBridge

\* history: send_text was called on socket ws with the message of <<n, t>>
Delivered(ws, n, t) ==
  h_delivered' = [h_delivered EXCEPT ![ws] = Append(@, <<n, t>>)]

\* the enrichment query returned no row or raised: the helper returns None
\* and the loop goes on
QueryReturnNone(n, found) ==
  /\ handlers[n].pc = "query"
  /\ ~(found /\ QueryServed(n))
  /\ LET h == [Observed(handlers[n]) EXCEPT !.undisturbed = FALSE, !.subs0 = <<>>]
         next == handler_loop(h, h.todo, subscribers, Released(n))
     IN /\ handlers' = [handlers EXCEPT ![n] = Finished(next)]
        /\ conn_busy' = IF next.pc = "query" THEN n ELSE Released(n)
  /\ UNCHANGED <<is_running, connection, listeners, listener_pc, store_up,
                 notify_left, failures_left, h_delivered>>
  /\ UNCHANGED OtherThanBridge

\* the enrichment query returned the row: the message is built and
\* broadcast_to_subscribers runs up to its first send_text, or returns 0 at
\* once and the loop goes on
QueryReturnRow(n) ==
  /\ handlers[n].pc = "query"
  /\ QueryServed(n)
  /\ LET h == Observed(handlers[n])
         t == h.cur
     IN IF subscriber_count_in(subscribers, t) = 0
        THEN LET next == handler_loop(h, h.todo, subscribers, Free)
             IN /\ handlers' = [handlers EXCEPT ![n] = Finished(next)]
                /\ conn_busy' = IF next.pc = "query" THEN n ELSE Free
                /\ UNCHANGED <<bcast, h_delivered>>
        ELSE /\ BroadcastStart(BridgeFrame(n), t)
             /\ Delivered(bcast'[BridgeFrame(n)].cur, n, t)
             /\ handlers' = [handlers EXCEPT ![n] = [h EXCEPT !.pc = "bcast"]]
             /\ conn_busy' = Free
  /\ UNCHANGED <<max_connections, connections, subscribers, heartbeat_tasks,
                 connect_pc, hb_pc, h_live, h_subs>>
  /\ UNCHANGED <<is_running, connection, listeners, listener_pc, store_up,
                 notify_left, failures_left>>
  /\ UNCHANGED <<CollVars, FundVars, CandleVars, RouterVars>>

\* one send_text of the handler's broadcast finished; then the next one
\* starts, or the broadcast returns and the loop goes on
HandlerWriteDone(n, ok) ==
  /\ handlers[n].pc = "bcast"
  /\ BroadcastWrite(BridgeFrame(n), ok, TRUE)
  /\ LET h == IF ok THEN Observed(handlers[n])
              ELSE [handlers[n] EXCEPT !.undisturbed = FALSE, !.subs0 = <<>>]
         f == bcast'[BridgeFrame(n)]
     IN IF f.pc = "write"
        THEN /\ Delivered(f.cur, n, h.cur)
             /\ handlers' = [handlers EXCEPT ![n] = h]
             /\ UNCHANGED conn_busy
        ELSE LET next == handler_loop(h, h.todo, subscribers', conn_busy)
             IN /\ handlers' = [handlers EXCEPT ![n] = Finished(next)]
                /\ conn_busy' = IF next.pc = "query" THEN n ELSE conn_busy
                /\ UNCHANGED h_delivered
  /\ UNCHANGED <<is_running, connection, listeners, listener_pc, store_up,
                 notify_left, failures_left>>
  /\ UNCHANGED <<CollVars, FundVars, CandleVars, RouterVars>>

NextListener ==
  \/ AppStart
  \/ StartConnectReturn
  \/ StartListenReturn
  \/ KeepAliveWake
  \/ KeepAliveReturn
  \/ RetryWake
  \/ StopReturn

NextStore ==
  \/ TransportFailure
  \/ StoreRecovers

NextHandlers ==
  \/ \E channel \in Channels, key \in Topics \cup Pairs, payload \in Payloads :
       Notify(channel, key, payload)
  \/ \E n \in Notifications : HandlerRun(n)
  \/ \E n \in Notifications, rows \in Orders(Topics) \cup {<<>>} : MapReturn(n, rows)
  \/ \E n \in Notifications, found \in BOOLEAN : QueryReturnNone(n, found)
  \/ \E n \in Notifications : QueryReturnRow(n)
  \/ \E n \in Notifications, ok \in BOOLEAN : HandlerWriteDone(n, ok)

\* the hub as the bridge's environment: clients come, subscribe and go
NextClients ==
  \/ \E c \in BridgeConns : ConnectCall(c)
  \/ \E c \in BridgeConns : ConnectAccepted(c)
  \/ \E c \in BridgeConns : Disconnect(c)
  \/ \E c \in BridgeConns, ids \in IdLists : Subscribe(c, ids)
  \/ \E c \in BridgeConns, ids \in IdLists : Unsubscribe(c, ids)

\* clients that come and subscribe, and leave only when a write to them fails
NextJoin ==
  \/ \E c \in BridgeConns : ConnectCall(c)
  \/ \E c \in BridgeConns : ConnectAccepted(c)
  \/ \E c \in BridgeConns, ids \in IdLists : Subscribe(c, ids)

\* the handlers of candle notifications only
NextCandleHandlers ==
  \/ \E key \in Topics, payload \in Payloads : Notify("candle_updates", key, payload)
  \/ \E n \in Notifications : HandlerRun(n)
  \/ \E n \in Notifications, found \in BOOLEAN : QueryReturnNone(n, found)
  \/ \E n \in Notifications : QueryReturnRow(n)
  \/ \E n \in Notifications, ok \in BOOLEAN : HandlerWriteDone(n, ok)

NextStart ==
  \/ AppStart
  \/ StartConnectReturn
  \/ StartListenReturn

NextBridge == NextListener \/ NextHandlers \/ NextClients

\* notifications nobody has subscribed to: every handler returns after its
\* subscriber check, or after the mapping query
NextIdleHandlers ==
  \/ \E channel \in Channels, key \in Topics \cup Pairs, payload \in Payloads :
       Notify(channel, key, payload)
  \/ \E n \in Notifications : HandlerRun(n)
  \/ \E n \in Notifications, rows \in Orders(Topics) \cup {<<>>} : MapReturn(n, rows)

NextRecovery == NextListener \/ NextStore \/ NextIdleHandlers

NextBridgeCandle == NextStart \/ NextCandleHandlers \/ NextJoin

\* ------------------------------------------------ message loop: definitions
\* the three kinds of historical reply, in the order send_historical_data
\* sends them for one starlisting
HistoryKinds == <<"historical", "historical_funding", "historical_oi">>

\* the message loop waiting in receive_text, no request in hand
IdleRequest ==
  [pc |-> "receive", ids |-> <<>>, history |-> 0, code |-> "none", todo |-> <<>>]

InitRouter ==
  /\ sub_pc = [c \in Conns |-> IdleRequest]
  /\ h_stream = [c \in Conns |-> [t \in Topics |-> "none"]]

\* mutant: the ids that are not active starlistings are dropped silently
invalid_starlisting_ids_none(ids) == <<>>

\* handle_subscribe's validation loop: the ids with an active row, and the
\* others, each in request order (Topics are the active starlistings)
valid_starlisting_ids(ids) == SelectSeq(ids, LAMBDA id : id \in Topics)

invalid_starlisting_ids(ids) == SelectSeq(ids, LAMBDA id : id \notin Topics)

\* send_historical_data's send loop: per starlisting in request order, one
\* message per kind of data of which the batch query returned rows
RECURSIVE history_todo(_, _)
history_todo(ids, avail) ==
  IF ids = <<>> THEN <<>>
  ELSE SelectSeq([k \in 1..Len(HistoryKinds) |-> <<Head(ids), HistoryKinds[k]>>],
                 LAMBDA m : m[2] \in avail)
         \o history_todo(Tail(ids), avail)

\* history: the order of records on one socket for one topic, after a live
\* record and after a historical one
after_live(s) ==
  CASE s = "none" -> "live"
    [] s = "historical" -> "historical_live"
    [] OTHER -> s

after_historical(s) ==
  CASE s = "none" -> "historical"
    [] s = "live" -> "live_historical"
    [] OTHER -> s

\* history: a subscribe() of socket c to ids: a topic it already streams stays
\* out of the record, a new one starts with nothing delivered
stream_reset(c, ids) ==
  [t \in Topics |->
     IF t \notin Range(ids) THEN h_stream[c][t]
     ELSE IF c \in DOMAIN connections /\ t \in connections[c] THEN "streaming"
     ELSE "none"]

\* ---------------------------------------------------- message loop: actions
\* receive_text returned a subscribe message; handle_subscribe runs up to the
\* write of a validation error or the first validation query
SubscribeReceived(c, well_formed, ids, history) ==
  /\ connect_pc[c] = "true"
  /\ sub_pc[c].pc = "receive"
  /\ sub_pc' = [sub_pc EXCEPT
                  ![c] = IF well_formed
                         THEN [IdleRequest EXCEPT !.pc = "validate", !.ids = ids,
                                                  !.history = history]
                         ELSE [IdleRequest EXCEPT !.pc = "send_error",
                                                  !.code = "validation_error"]]
  /\ UNCHANGED <<h_stream, HubVars, CollVars, FundVars, CandleVars, BridgeVars>>

\* the validation queries returned (or one raised): an error is written, or
\* the socket is subscribed and the success message is written
ValidateReturn(c, db_ok) ==
  /\ sub_pc[c].pc = "validate"
  /\ LET f == sub_pc[c]
         valid == valid_starlisting_ids(f.ids)
         invalid == invalid_starlisting_ids(f.ids)
     IN IF ~db_ok \/ invalid # <<>>
        THEN /\ sub_pc' = [sub_pc EXCEPT
                             ![c] = [f EXCEPT !.pc = "send_error",
                                              !.code = IF db_ok THEN "invalid_starlisting"
                                                       ELSE "internal_error"]]
             /\ UNCHANGED <<connections, subscribers, heartbeat_tasks, hb_pc,
                            h_subs, h_stream>>
        ELSE /\ sub_pc' = [sub_pc EXCEPT ![c] = [f EXCEPT !.pc = "send_success",
                                                         !.ids = valid]]
             /\ SetHub(subscribe(Hub, c, valid))
             /\ h_subs' = IF c \in h_live
                          THEN h_subs \cup {<<c, t>> : t \in Range(valid)}
                          ELSE h_subs
             /\ h_stream' = [h_stream EXCEPT ![c] = stream_reset(c, valid)]
  /\ UNCHANGED <<max_connections, connect_pc, bcast, h_live>>
  /\ UNCHANGED <<CollVars, FundVars, CandleVars, BridgeVars>>

\* send_error's write finished; the message loop goes back to receive_text
ErrorWriteDone(c, ok) ==
  /\ sub_pc[c].pc = "send_error"
  /\ SetHub(send_to_client(Hub, c, ok))
  /\ IF ok THEN UNCHANGED <<h_live, h_subs>> ELSE GhostDisconnect({c})
  /\ sub_pc' = [sub_pc EXCEPT ![c] = IdleRequest]
  /\ UNCHANGED <<max_connections, connect_pc, bcast, h_stream>>
  /\ UNCHANGED <<CollVars, FundVars, CandleVars, BridgeVars>>

\* the write of the success message finished; with history > 0 the batch
\* queries of send_historical_data are issued
SuccessWriteDone(c, ok) ==
  /\ sub_pc[c].pc = "send_success"
  /\ SetHub(send_to_client(Hub, c, ok))
  /\ IF ok THEN UNCHANGED <<h_live, h_subs>> ELSE GhostDisconnect({c})
  /\ sub_pc' = [sub_pc EXCEPT
                  ![c] = IF sub_pc[c].history > 0 THEN [@ EXCEPT !.pc = "history"]
                         ELSE IdleRequest]
  /\ UNCHANGED <<max_connections, connect_pc, bcast, h_stream>>
  /\ UNCHANGED <<CollVars, FundVars, CandleVars, BridgeVars>>

\* send_historical_data: the three batch queries returned rows of the kinds
\* in avail, or one of them raised
HistoryQueryReturn(c, db_ok, avail) ==
  /\ sub_pc[c].pc = "history"
  /\ LET todo == history_todo(sub_pc[c].ids, avail)
     IN sub_pc' = [sub_pc EXCEPT
                     ![c] = IF ~db_ok
                            THEN [@ EXCEPT !.pc = "send_error",
                                           !.code = "historical_data_error"]
                            ELSE IF todo = <<>> THEN IdleRequest
                            ELSE [@ EXCEPT !.pc = "send_history", !.todo = todo]]
  /\ UNCHANGED <<h_stream, HubVars>>
  /\ UNCHANGED <<CollVars, FundVars, CandleVars, BridgeVars>>

\* the write of one historical message finished; the next one is written or
\* handle_subscribe returns
HistoryWriteDone(c, ok) ==
  /\ sub_pc[c].pc = "send_history"
  /\ SetHub(send_to_client(Hub, c, ok))
  /\ IF ok THEN UNCHANGED <<h_live, h_subs>> ELSE GhostDisconnect({c})
  /\ LET t == Head(sub_pc[c].todo)[1]
         rest == Tail(sub_pc[c].todo)
     IN /\ h_stream' = IF ok THEN [h_stream EXCEPT ![c][t] = after_historical(@)]
                       ELSE h_stream
        /\ sub_pc' = [sub_pc EXCEPT ![c] = IF rest = <<>> THEN IdleRequest
                                           ELSE [@ EXCEPT !.todo = rest]]
  /\ UNCHANGED <<max_connections, connect_pc, bcast>>
  /\ UNCHANGED <<CollVars, FundVars, CandleVars, BridgeVars>>

\* one send_text of a live broadcast finished
LiveWriteDone(b, ok) ==
  /\ BroadcastWrite(b, ok, FALSE)
  /\ h_stream' = IF ok
                 THEN [h_stream EXCEPT ![bcast[b].cur][bcast[b].topic] = after_live(@)]
                 ELSE h_stream
  /\ UNCHANGED <<sub_pc>>
  /\ UNCHANGED <<CollVars, FundVars, CandleVars, BridgeVars>>

\* receive_text raised WebSocketDisconnect: the loop ends and the endpoint's
\* finally clause disconnects the socket
ClientGone(c) ==
  /\ connect_pc[c] = "true"
  /\ sub_pc[c].pc = "receive"
  /\ sub_pc' = [sub_pc EXCEPT ![c] = [IdleRequest EXCEPT !.pc = "closed"]]
  /\ SetHub(disconnect(Hub, c))
  /\ GhostDisconnect({c})
  /\ UNCHANGED <<max_connections, connect_pc, bcast, h_stream>>
  /\ UNCHANGED <<CollVars, FundVars, CandleVars, BridgeVars>>

NextRouter ==
  \/ \E c \in Clients : ConnectCall(c)
  \/ \E c \in Clients : ConnectAccepted(c)
  \/ \E c \in Clients, well_formed \in BOOLEAN, ids \in RequestLists,
        history \in Histories : SubscribeReceived(c, well_formed, ids, history)
  \/ \E c \in Clients, db_ok \in BOOLEAN : ValidateReturn(c, db_ok)
  \/ \E c \in Clients, ok \in BOOLEAN : ErrorWriteDone(c, ok)
  \/ \E c \in Clients, ok \in BOOLEAN : SuccessWriteDone(c, ok)
  \/ \E c \in Clients, db_ok \in BOOLEAN, avail \in SUBSET Range(HistoryKinds) :
        HistoryQueryReturn(c, db_ok, avail)
  \/ \E c \in Clients, ok \in BOOLEAN : HistoryWriteDone(c, ok)
  \/ \E b \in BIds, t \in Topics : BroadcastCall(b, t)
  \/ \E b \in BIds, ok \in BOOLEAN : LiveWriteDone(b, ok)
  \/ \E b \in BIds : CallReturn(b)
  \/ \E c \in Clients : ClientGone(c)

\* ---------------------------------------------------------- specifications
\* the hub alone
InitSpecHub ==
  /\ InitHub /\ InitColl({}, 0) /\ InitFund /\ InitCandle({GoodCandle})
  /\ InitBridge(0, 0)
  /\ InitRouter
  /\ collector_max_retries = MaxRetries

SpecHub == InitSpecHub /\ [][NextHub]_vars

\* one registered collector, start_all() invoked once (as collectors/main.py does)
InitSpecCollector ==
  /\ InitHub /\ InitColl({1}, 1) /\ InitFund /\ InitCandle({GoodCandle})
  /\ InitBridge(0, 0)
  /\ InitRouter
  /\ max_connections = MaxCapacity

SpecCollector == InitSpecCollector /\ [][NextColl]_vars

\* the same, with the run task cancelled at any of its awaits
NextCancel ==
  \/ StartAllCall
  \/ \E ok \in BOOLEAN : StartAllInitDone(ok)
  \/ \E i \in TaskIds : RunStart(i)
  \/ \E i \in TaskIds, outcome \in {"ok", "fail_open", "fail_subscribe"} :
        ConnectReturn(i, outcome)
  \/ \E i \in TaskIds, m \in SampleMessages, store_ok \in BOOLEAN :
        Message(i, m, store_ok)
  \/ \E i \in TaskIds, dropped \in BOOLEAN : StreamClosed(i, dropped)
  \/ \E i \in TaskIds : SleepReturn(i)
  \/ \E i \in TaskIds : CloseReturn(i)
  \/ \E c \in Collectors : Stop(c)
  \/ \E i \in TaskIds, opened \in BOOLEAN : Cancel(i, opened)
  \/ \E i \in TaskIds : CancelledCloseReturn(i)

SpecCancel == InitSpecCollector /\ [][NextCancel]_vars

\* the same, with the scheduler running every ready run task and every
\* connect(), close() and sleep() returning; the stream is not obliged to
\* deliver anything
FairSpecCollector ==
  /\ InitSpecCollector /\ [][NextColl]_vars
  /\ WF_vars(\E i \in TaskIds : RunStep(i))

\* one registered collector, start_all() invoked up to MaxStartAll times
InitSpecRestart ==
  /\ InitHub /\ InitColl({1}, MaxStartAll) /\ InitFund /\ InitCandle({GoodCandle})
  /\ InitBridge(0, 0)
  /\ InitRouter
  /\ max_connections = MaxCapacity

SpecRestart == InitSpecRestart /\ [][NextColl]_vars

\* every collector registered, start_all() invoked once
InitSpecStartAll ==
  /\ InitHub /\ InitColl(Collectors, 1) /\ InitFund /\ InitCandle({GoodCandle})
  /\ InitBridge(0, 0)
  /\ InitRouter
  /\ max_connections = MaxCapacity

\* start_all() and the run tasks it creates, up to their connections
NextStartAll ==
  \/ StartAllCall
  \/ \E ok \in BOOLEAN : StartAllInitDone(ok)
  \/ \E i \in TaskIds : RunStart(i)
  \/ \E i \in TaskIds, outcome \in {"ok", "fail_open", "fail_subscribe"} :
        ConnectReturn(i, outcome)
  \/ \E i \in TaskIds : SleepReturn(i)
  \/ \E c \in Collectors : Stop(c)

SpecStartAll == InitSpecStartAll /\ [][NextStartAll]_vars

\* both adapters registered, each with any of StarlistingLists active in the
\* store; start_all() invoked once; connections made, lost and closed
InitSpecSubscriptions ==
  /\ InitHub /\ InitFund /\ InitCandle({GoodCandle})
  /\ InitBridge(0, 0)
  /\ InitRouter
  /\ max_connections = MaxCapacity
  /\ collector_max_retries = 1
  /\ collectors = Collectors
  /\ coll \in [Collectors -> {[NewCollector EXCEPT !.h_active = sl] :
                                sl \in StarlistingLists}]
  /\ tasks = <<>>
  /\ start_all_pc = [pc |-> "idle", todo |-> <<>>]
  /\ stop_all_pc = [pc |-> "idle", n |-> 0]
  /\ start_all_left = 1
  /\ h_attempts = [c \in Collectors |-> 0]
  /\ h_events = [c \in Collectors |-> {}]

NextSubscriptions ==
  \/ StartAllCall
  \/ \E ok \in BOOLEAN : StartAllInitDone(ok)
  \/ \E i \in TaskIds : RunStart(i)
  \/ \E i \in TaskIds, outcome \in {"ok", "fail_open", "fail_subscribe"} :
        ConnectReturn(i, outcome)
  \/ \E i \in TaskIds, dropped \in BOOLEAN : StreamClosed(i, dropped)
  \/ \E i \in TaskIds : SleepReturn(i)
  \/ \E i \in TaskIds : CloseReturn(i)

SpecSubscriptions == InitSpecSubscriptions /\ [][NextSubscriptions]_vars

\* the funding/OI collector alone, over any number of connect cycles
InitSpecFunding ==
  /\ InitHub /\ InitColl({}, 0) /\ InitFund /\ InitCandle({GoodCandle})
  /\ InitBridge(0, 0)
  /\ InitRouter
  /\ max_connections = MaxCapacity /\ collector_max_retries = MaxRetries

SpecFunding == InitSpecFunding /\ [][NextFund]_vars

\* one inbound message, any of Messages, through the loop body of collect()
InitSpecCandle ==
  /\ InitHub /\ InitColl({}, 0) /\ InitFund /\ InitCandle(Messages)
  /\ InitBridge(0, 0)
  /\ InitRouter
  /\ max_connections = MaxCapacity /\ collector_max_retries = MaxRetries

SpecCandle == InitSpecCandle /\ [][NextCandle]_vars

\* the bridge with its keep-alive loop and the hub's clients, one notification
\* of any kind, a store that stays reachable
InitSpecBridge ==
  /\ InitHub /\ InitColl({}, 0) /\ InitFund /\ InitCandle({GoodCandle})
  /\ InitBridge(1, 0)
  /\ InitRouter
  /\ max_connections = MaxCapacity /\ collector_max_retries = MaxRetries

SpecBridge == InitSpecBridge /\ [][NextBridge]_vars

\* the bridge once started and the hub's clients, MaxNotifications candle
\* notifications, a store that stays reachable
InitSpecBridgeCandle ==
  /\ InitHub /\ InitColl({}, 0) /\ InitFund /\ InitCandle({GoodCandle})
  /\ InitBridge(MaxNotifications, 0)
  /\ InitRouter
  /\ max_connections = MaxCapacity /\ collector_max_retries = MaxRetries

SpecBridgeCandle == InitSpecBridgeCandle /\ [][NextBridgeCandle]_vars

\* the bridge with no client, a store connection that fails up to MaxFailures
\* times and a store that comes back each time; every task that can run does,
\* every timer expires and every awaited call returns
InitSpecRecovery ==
  /\ InitHub /\ InitColl({}, 0) /\ InitFund /\ InitCandle({GoodCandle})
  /\ InitBridge(MaxNotifications, MaxFailures)
  /\ InitRouter
  /\ max_connections = MaxCapacity /\ collector_max_retries = MaxRetries

FairSpecRecovery ==
  /\ InitSpecRecovery /\ [][NextRecovery]_vars
  /\ WF_vars(NextListener)
  /\ WF_vars(StoreRecovers)
  /\ WF_vars(\E n \in Notifications : HandlerRun(n))
  /\ WF_vars(\E n \in Notifications, rows \in Orders(Topics) \cup {<<>>} : MapReturn(n, rows))

\* connections coming, subscribing and going, direct sends and heartbeats
NextHeartbeat ==
  \/ \E c \in Conns : ConnectCall(c)
  \/ \E c \in Conns : ConnectAccepted(c)
  \/ \E c \in Conns : Disconnect(c)
  \/ \E c \in Conns, ids \in IdLists : Subscribe(c, ids)
  \/ \E b \in BIds, c \in Conns : SendCall(b, c)
  \/ \E b \in BIds, ok \in BOOLEAN : SendDone(b, ok)
  \/ \E b \in BIds : CallReturn(b)
  \/ \E c \in Conns : HeartbeatWake(c)
  \/ \E c \in Conns, ok \in BOOLEAN : HeartbeatPingDone(c, ok)

\* the hub with every heartbeat task's sleep ending and every ping's send_text
\* returning or raising; clients are not obliged to do anything
FairSpecHeartbeat ==
  /\ InitSpecHub /\ [][NextHeartbeat]_vars
  /\ \A c \in Conns : WF_vars(HeartbeatWake(c))
  /\ \A c \in Conns : WF_vars(\E ok \in BOOLEAN : HeartbeatPingDone(c, ok))

\* the message loops of the sockets, with live broadcasts on any topic
InitSpecRouter ==
  /\ InitHub /\ InitColl({}, 0) /\ InitFund /\ InitCandle({GoodCandle})
  /\ InitBridge(0, 0)
  /\ InitRouter
  /\ max_connections = MaxCapacity /\ collector_max_retries = MaxRetries

SpecRouter == InitSpecRouter /\ [][NextRouter]_vars

\* ------------------------------------------------------------ hub: claims
\* C1: a broadcast on topic T attempts a write to exactly the connections
\* subscribed to T when broadcast_to_subscribers was called: while it runs it
\* writes to none that had unsubscribed or been disconnected before the call,
\* and when it returns it has written to every one subscribed at the call.
C1_BroadcastWritesExactlySubscribers ==
  \A b \in BIds :
    bcast[b].op = "broadcast" =>
      /\ bcast[b].attempted \subseteq bcast[b].expected
      /\ bcast[b].pc = "done" => bcast[b].attempted = bcast[b].expected

\* a finished broadcast to two subscribers, while some earlier connection has
\* been disconnected and got no write
C1_Witness ==
  \E b \in BIds, c \in Conns :
    /\ bcast[b].op = "broadcast" /\ bcast[b].pc = "done"
    /\ Cardinality(bcast[b].attempted) >= 2
    /\ connect_pc[c] = "true" /\ c \notin DOMAIN connections
    /\ c \notin bcast[b].attempted

\* C2: the number of admitted connections never exceeds max_connections, also
\* when several connect() calls are suspended in websocket.accept().
C2_CapacityNeverExceeded == connection_count <= max_connections

\* C3: a connect() called while connection_count = max_connections returns
\* False and changes neither index nor the heartbeat tasks; a disconnect() of
\* an admitted connection at that count frees a slot; and a connect() that
\* finds a free slot is accepted and returns True.
C3_RejectAtCapacityAdmitAfterFree ==
  [][\A c \in Conns :
       /\ (connect_pc[c] = "new" /\ connect_pc'[c] # "new"
              /\ connection_count = max_connections)
            => /\ connect_pc'[c] = "false"
               /\ UNCHANGED <<connections, subscribers, heartbeat_tasks>>
       /\ (connection_count = max_connections
              /\ c \in DOMAIN connections /\ c \notin DOMAIN connections')
            => Cardinality(DOMAIN connections') < max_connections
       /\ (connect_pc[c] = "new" /\ connect_pc'[c] # "new"
              /\ connection_count < max_connections)
            => connect_pc'[c] = "accept"
       /\ (connect_pc[c] = "accept" /\ connect_pc'[c] # "accept")
            => connect_pc'[c] = "true" /\ c \in DOMAIN connections'
    ]_vars

\* at capacity: one connection was refused, an admitted one has been
\* disconnected, and a further connect() has returned True
C3_Witness ==
  \E c1, c2, c3 \in Conns :
    /\ connect_pc[c1] = "true" /\ c1 \notin DOMAIN connections
    /\ connect_pc[c2] = "false"
    /\ connect_pc[c3] = "true" /\ c3 \in DOMAIN connections
    /\ connection_count = max_connections

\* C4: in every state a task can observe, topic t is in connection c's set iff
\* c is in t's subscriber set, and only admitted connections appear.
C4_IndicesAgree ==
  /\ \A c \in Conns, t \in Topics :
        (c \in DOMAIN connections /\ t \in connections[c])
          <=> (t \in DOMAIN subscribers /\ c \in subscribers[t])
  /\ DOMAIN subscribers \subseteq Topics
  /\ \A t \in DOMAIN subscribers : subscribers[t] \subseteq DOMAIN connections

\* a connection holds two subscriptions while a broadcast is suspended in a
\* write and another connection has already been disconnected
C4_Witness ==
  \E b \in BIds, c, d \in Conns :
    /\ bcast[b].pc = "write"
    /\ c \in DOMAIN connections /\ Cardinality(connections[c]) >= 2
    /\ connect_pc[d] = "true" /\ d \notin DOMAIN connections

\* ----------------------------------------------------- collectors: claims
TasksOf(c) == {i \in TaskIds : tasks[i].collector = c}

\* connect() has failed every time so far and stop() has not been called
AlwaysFailed(c) ==
  /\ TasksOf(c) # {}
  /\ "connect_ok" \notin h_events[c]
  /\ ~coll[c].stop_event

C5_Safety ==
  \A c \in Collectors : \A i \in TasksOf(c) :
    AlwaysFailed(c) =>
      /\ h_attempts[c] <= collector_max_retries + 1
      /\ tasks[i].pc = "done" =>
            (h_attempts[c] = collector_max_retries + 1 /\ coll[c].status = "stopped")
      /\ (h_attempts[c] = collector_max_retries + 1 /\ tasks[i].pc # "connect")
            => tasks[i].pc \in {"closing", "done"}

\* C5: a collector whose connect() always fails (and that is not stopped)
\* makes at most max_retries + 1 connect() attempts, gives up right after
\* the last one, and ends with status Stopped after exactly max_retries + 1
\* attempts, for every max_retries in 0..MaxRetries; and it does end.
C5_StoppedAfterMaxRetriesPlusOne ==
  /\ []C5_Safety
  /\ \A c \in Collectors :
        AlwaysFailed(c) ~>
          \/ (coll[c].status = "stopped" /\ h_attempts[c] = collector_max_retries + 1)
          \/ ~AlwaysFailed(c)

\* the run loop has ended after max_retries + 1 failed connects, max_retries > 0
C5_Witness ==
  \E i \in TaskIds :
    LET c == tasks[i].collector
    IN /\ AlwaysFailed(c) /\ tasks[i].pc = "done"
       /\ coll[c].status = "stopped"
       /\ collector_max_retries >= 1
       /\ h_attempts[c] = collector_max_retries + 1

\* C6: a collector whose stream drops every time (every connect() succeeds,
\* every collect() raises) is retried only up to the attempt limit: it never
\* makes more than max_retries + 1 connection attempts.
C6_StreamDropsRetriedUpToLimit ==
  \A c \in Collectors :
    ( /\ "connect_failed" \notin h_events[c]
      /\ "collect_returned" \notin h_events[c]
      /\ ~coll[c].stop_event )
    => h_attempts[c] <= collector_max_retries + 1

\* C7: every change of a collector's status follows the lifecycle graph: no
\* step from Error straight to Running, none from Stopping to Running, and
\* none out of Stopped.
C7_StatusFollowsGraph ==
  [][\A c \in Collectors :
       LET a == coll[c].status
           b == coll'[c].status
       IN a # b =>
            /\ ~(a = "error" /\ b = "running")
            /\ ~(a = "stopping" /\ b = "running")
            /\ a # "stopped"
            /\ b # "idle"
    ]_vars

\* stop() has been called and the collector's run loop has not ended
StopPending(c) ==
  /\ coll[c].stop_event
  /\ \E i \in TasksOf(c) : tasks[i].pc # "done"

\* C8 as stated: once stop() is called on a collector whose run loop is
\* active, the loop exits and the status becomes Stopped, given only that
\* connect(), close() and sleep() return.
C8_StopAlwaysStops ==
  \A c \in Collectors : StopPending(c) ~> coll[c].status = "stopped"

\* C8 amended: the same, given also that a collector waiting in collect() is
\* eventually handed a message or the end of the stream.
C8_StopStopsIfStreamYields ==
  WF_vars(\E i \in TaskIds : StreamEvent(i))
    => \A c \in Collectors : StopPending(c) ~> coll[c].status = "stopped"

\* stop() was seen by the collect loop on a message, and the run ended Stopped
C8_Witness ==
  \E i \in TaskIds :
    LET c == tasks[i].collector
    IN /\ coll[c].stop_event /\ "stop_seen" \in h_events[c]
       /\ tasks[i].pc = "done" /\ coll[c].status = "stopped"

\* C9: per collector at most one run loop is active and at most one collect()
\* is running, whatever the orchestrator calls (start_all() more than once).
C9_AtMostOneCollect ==
  \A c \in Collectors :
    /\ Cardinality({i \in TasksOf(c) : tasks[i].pc = "collect"}) <= 1
    /\ Cardinality({i \in TasksOf(c) : tasks[i].pc \notin {"created", "done"}}) <= 1

\* ------------------------------------------------- funding/OI buffer: claims
IssuedFor(kind, coin) ==
  SelectSeq(h_issued, LAMBDA u : u[1] = kind /\ u[2] = coin)

\* C10: when a flush has run to its end without a store failure, then for
\* every coin and data kind that received at least one update between the
\* previous boundary and the boundary of this flush, the flush issued exactly
\* one upsert, carrying the value of the last such update.
C10_OneUpsertLastValue ==
  h_flush = "completed" =>
    \A kind \in Kinds, coin \in Coins :
      h_expect[kind][coin] # 0 =>
        IssuedFor(kind, coin) = << <<kind, coin, h_expect[kind][coin]>> >>

\* C11: the drain-and-clear of a flush is atomic with respect to the collect
\* task: an update buffered while the flush is suspended in a store call
\* never makes the flush fail, and when the flush has cleared the buffers
\* every such update has been written by it.
C11_FlushAtomic ==
  /\ h_flush # "iteration_error"
  /\ h_flush = "completed" => h_unwritten = {}

\* C12: after a flush in which a store call failed, the flush of the next
\* boundary (no disconnect in between, no store call failing again) has
\* issued an upsert for every coin and kind that was buffered at the failure.
C12_FailedFlushRetried ==
  h_flush \in {"completed", "iteration_error"} => h_retry = {}

\* ---------------------------------------------------- candle messages: claims
\* the conditions of the claim on the inbound candle, volume absent read as 0
MeetsInvariant(m) ==
  LET v == IF m.v.k = "missing" THEN Number(0) ELSE m.v
  IN /\ \A x \in {m.o, m.h, m.l, m.c, v} : x.k = "num"
     /\ m.h.v >= m.o.v /\ m.h.v >= m.c.v /\ m.h.v >= m.l.v
     /\ m.l.v <= m.o.v /\ m.l.v <= m.c.v
     /\ m.o.v > 0 /\ m.h.v > 0 /\ m.l.v > 0 /\ m.c.v > 0
     /\ v.v >= 0

WellFormed(m) ==
  /\ m.json = "object" /\ m.channel = "candle" /\ m.data = "present"
  /\ m.t = "ok" /\ <<m.s, m.i>> \in DOMAIN subscriptions

\* C13: an inbound candle is upserted only if high >= open, close, low,
\* low <= open, close, high, all prices > 0 and volume >= 0; one that breaks
\* a condition gives no upsert; one that meets them all for a subscribed
\* symbol and interval gives exactly one row, with its values, for its topic.
C13_UpsertIffValid ==
  c_out # NoOutcome =>
    /\ c_out.rows # <<>> => MeetsInvariant(c_msg)
    /\ (MeetsInvariant(c_msg) /\ WellFormed(c_msg)) =>
          c_out.rows = <<[starlisting_id |-> subscriptions[<<c_msg.s, c_msg.i>>],
                          open |-> c_msg.o, high |-> c_msg.h, low |-> c_msg.l,
                          close |-> c_msg.c,
                          volume |-> IF c_msg.v.k = "missing" THEN Number(0)
                                     ELSE c_msg.v]>>

\* the kinds of data error of the claim: unparseable JSON, a missing data,
\* symbol or interval field, an unknown subscription, an OHLC violation
DataError(m) ==
  \/ m.json # "object" \/ m.data # "present" \/ m.s = 0 \/ m.i = 0
  \/ <<m.s, m.i>> \notin DOMAIN subscriptions
  \/ m.t # "ok"
  \/ ~MeetsInvariant(m)

\* C14: a message with a data error, handled by a Running collector that has
\* not been told to stop, leaves no exception to collect(): the run task
\* stays in collect(), status, failure counter, last_error and health are
\* unchanged, and nothing is upserted.
C14_DataErrorContained ==
  [][\A i \in TaskIds :
       (/\ tasks[i].pc = "collect" /\ ~coll[tasks[i].collector].stop_event
        /\ <<c_msg, c_out>>' # <<c_msg, c_out>> /\ DataError(c_msg'))
         => /\ tasks'[i] = tasks[i]
            /\ coll'[tasks[i].collector] = coll[tasks[i].collector]
            /\ c_out'.raised = "none" /\ c_out'.rows = <<>>
    ]_vars

\* a data error was handled and then a valid candle was upserted and stored
C14_Witness ==
  \E i \in TaskIds :
    /\ tasks[i].pc = "collect" /\ coll[tasks[i].collector].status = "running"
    /\ c_msg = GoodCandle /\ c_out.stored
    /\ "message_dropped" \in h_events[tasks[i].collector]

\* ------------------------------------------------ notification bridge: claims
\* the fine-grained topics a notification implicates
Implicated(h) ==
  IF h.channel = "candle_updates" THEN {h.key} ELSE pair_topics(h.key)

\* this step sends a query of handler n to the store: the mapping query or an
\* enrichment query
IssuesQuery(n) ==
  /\ handlers'[n].pc \in {"map_query", "query"}
  /\ \/ handlers'[n].pc # handlers[n].pc
     \/ handlers'[n].queries # handlers[n].queries

\* C15: a handler sends a query to the store only when the hub reports a
\* subscriber for at least one fine-grained topic its notification implicates
C15_NoQueryWithoutSubscribers ==
  [][\A n \in Notifications :
       IssuesQuery(n) =>
         \E t \in Implicated(handlers'[n]) : get_subscriber_count(t) > 0]_vars

\* the send_text calls made for notification n, as <<socket, position in its log>>
Writes(log, n) ==
  {<<c, i>> \in Conns \X (1..(2 * MaxNotifications)) :
     i <= Len(log[c]) /\ log[c][i][1] = n}

\* this step is the last one of the handler task of notification n
Completes(n) == handlers[n].pc # "done" /\ handlers'[n].pc = "done"

\* C16: when the handler of an undisturbed candle notification on topic T
\* returns, it has sent exactly one enrichment query and made exactly one
\* write if exactly one connection was subscribed to T throughout, and no query
\* and no write if none was
C16_OneQueryOneWrite ==
  [][\A n \in Notifications :
       (/\ Completes(n)
        /\ handlers'[n].channel = "candle_updates"
        /\ handlers'[n].undisturbed)
       => LET count == get_subscriber_count(handlers'[n].key)
              queries == handlers'[n].queries
              writes == Cardinality(Writes(h_delivered', n))
          IN /\ count = 1 => queries = 1 /\ writes = 1
             /\ count = 0 => queries = 0 /\ writes = 0]_vars

\* C17: when the handler of an undisturbed funding or open-interest
\* notification on pair P returns, it has sent one enrichment query for each
\* active topic of P that has a subscriber and none for another topic, and has
\* written the record of each such topic exactly once to each of its
\* subscribers and to nobody else
C17_OncePerSubscribedTopic ==
  [][\A n \in Notifications :
       (/\ Completes(n)
        /\ handlers'[n].channel \in {"funding_updates", "oi_updates"}
        /\ handlers'[n].undisturbed)
       => LET served == {t \in pair_topics(handlers'[n].key) :
                           get_subscriber_count(t) > 0}
              sends(c, t) == {i \in 1..Len(h_delivered'[c]) :
                                h_delivered'[c][i] = <<n, t>>}
          IN /\ handlers'[n].queries = Cardinality(served)
             /\ \A t \in Topics, c \in Conns :
                  Cardinality(sends(c, t)) =
                    IF t \in served /\ c \in subscribers[t] THEN 1 ELSE 0]_vars

\* the bridge holds an open connection with its callback registered on the
\* three channels and its keep-alive task running
BridgeUp ==
  /\ is_running
  /\ connection = "open"
  /\ listeners = Channels
  /\ listener_pc \in {"sleep", "ping"}

\* C18: whenever the running bridge has lost its store connection, and the
\* store comes back, the bridge is eventually up again
C18_EventuallyReconnected ==
  (is_running /\ connection = "closed") ~> BridgeUp

C20_DeliveredInOrder ==
  \A c \in Conns :
    \A i, j \in 1..Len(h_delivered[c]) :
      (i < j /\ h_delivered[c][i][2] = h_delivered[c][j][2])
        => h_delivered[c][i][1] < h_delivered[c][j][1]

\* ----------------------------------------------------- hub: further claims
\* C21: in every state of the hub, disconnect of a socket the hub does not
\* hold changes nothing, and a second disconnect in a row changes nothing
\* more than the first
C21_DisconnectIdempotent ==
  \A ws \in Conns :
    /\ ws \notin DOMAIN connections => disconnect(Hub, ws) = Hub
    /\ disconnect(disconnect(Hub, ws), ws) = disconnect(Hub, ws)

\* a socket that was admitted and disconnected, next to one never admitted,
\* while another socket is still subscribed
C21_Witness ==
  \E c, d, e \in Conns :
    /\ connect_pc[c] = "true" /\ c \notin DOMAIN connections /\ hb_pc[c] = "done"
    /\ connect_pc[d] = "new"
    /\ e \in DOMAIN connections /\ connections[e] # {}

\* the subscribers of a topic in the index subs, none when it has no entry
SubscribersIn(subs, t) == IF t \in DOMAIN subs THEN subs[t] ELSE {}

\* C22: a step that takes sockets out of the connection index leaves them in
\* no topic's subscriber set, cancels and removes their heartbeat tasks, and
\* leaves the subscriptions of every remaining socket as they were
C22_DisconnectRemovesOnlyConn ==
  [][LET gone == DOMAIN connections \ DOMAIN connections'
     IN gone # {} =>
          /\ \A t \in Topics :
               SubscribersIn(subscribers', t) = SubscribersIn(subscribers, t) \ gone
          /\ heartbeat_tasks' = heartbeat_tasks \ gone
          /\ \A c \in gone : hb_pc'[c] = "done"
          /\ \A d \in DOMAIN connections' : connections'[d] = connections[d]]_vars

\* a broadcast found a dead subscriber and a live one: the dead one is gone
\* from the hub, the live one is still subscribed to the topic
C22_Witness ==
  \E b \in BIds :
    /\ bcast[b].pc = "done"
    /\ \E c \in bcast[b].failed, d \in bcast[b].attempted \ bcast[b].failed :
         /\ c \notin DOMAIN connections
         /\ d \in SubscribersIn(subscribers, bcast[b].topic)

\* C23: every topic that has an entry in the topic -> connections index has
\* at least one subscriber, and reading a subscriber count leaves the index
\* as it is
C23_NoEmptyTopicEntry ==
  /\ \A t \in DOMAIN subscribers : subscribers[t] # {}
  /\ \A t \in Topics : subscribers_after_count(subscribers, t) = subscribers

\* a topic that had subscribers when a broadcast was called has no entry
\* any more, while the hub still holds connections
C23_Witness ==
  \E b \in BIds :
    /\ bcast[b].pc = "done" /\ bcast[b].op = "broadcast"
    /\ bcast[b].attempted # {}
    /\ bcast[b].topic \notin DOMAIN subscribers
    /\ DOMAIN connections # {}

\* C24: subscribe and unsubscribe for a socket that is not in the connection
\* index (never admitted, or already disconnected) leave the connection index
\* and the topic index as they are, whatever the topic ids
C24_NotConnectedNoEffect ==
  \A ws \in Conns \ DOMAIN connections : \A ids \in IdLists :
    /\ subscribe(Hub, ws, ids) = Hub
    /\ unsubscribe(Hub, ws, ids) = Hub

\* one socket was admitted and is gone, another was never admitted, and the
\* topic index holds a subscription of a third
C24_Witness ==
  \E c, d \in Conns \ DOMAIN connections :
    /\ connect_pc[c] = "true"
    /\ connect_pc[d] # "true"
    /\ \E t \in DOMAIN subscribers : subscribers[t] # {}

\* C25: in broadcast_to_subscribers a failed write does not stop the writes to
\* the other sockets of the snapshot; the returned sent_count is the number of
\* writes that succeeded; the broadcast disconnects nothing while its loop
\* runs, and when it returns every socket whose write failed is in neither
\* index
C25_BroadcastFailureContained ==
  [][\A b \in BIds :
       (bcast[b].op = "broadcast" /\ bcast[b].pc = "write" /\ bcast'[b] # bcast[b]) =>
         IF bcast'[b].pc = "write"
         THEN /\ bcast'[b].attempted \subseteq bcast[b].snap
              /\ UNCHANGED <<connections, subscribers, heartbeat_tasks>>
         ELSE /\ bcast'[b].pc = "done"
              /\ bcast[b].attempted = bcast[b].snap
              /\ bcast'[b].attempted = bcast[b].snap
              /\ bcast'[b].sent_count = Cardinality(bcast[b].snap \ bcast'[b].failed)
              /\ \A ws \in bcast'[b].failed :
                    /\ ws \notin DOMAIN connections'
                    /\ \A t \in Topics : ws \notin SubscribersIn(subscribers', t)]_vars

\* a broadcast returned after one write of its snapshot failed and another
\* succeeded
C25_Witness ==
  \E b \in BIds :
    /\ bcast[b].pc = "done" /\ bcast[b].op = "broadcast"
    /\ bcast[b].failed # {}
    /\ bcast[b].sent_count >= 1
    /\ bcast[b].sent_count + Cardinality(bcast[b].failed) = Cardinality(bcast[b].attempted)

\* C26: send_to_client returns True and leaves the hub as it was when the
\* write succeeds; when the write fails it returns False and the socket is in
\* neither the connection index nor any topic's subscriber set
C26_SendWriteOrDisconnect ==
  [][\A b \in BIds :
       (bcast[b].op = "send" /\ bcast[b].pc = "write" /\ bcast'[b] # bcast[b]) =>
         /\ bcast'[b].pc = "done"
         /\ bcast'[b].ret \in {"true", "false"}
         /\ bcast'[b].ret = "true" =>
               UNCHANGED <<max_connections, connections, subscribers,
                           heartbeat_tasks, hb_pc, connect_pc>>
         /\ bcast'[b].ret = "false" =>
               /\ bcast[b].cur \notin DOMAIN connections'
               /\ bcast[b].cur \notin heartbeat_tasks'
               /\ \A t \in Topics : bcast[b].cur \notin SubscribersIn(subscribers', t)]_vars

\* a direct send failed and returned False: its socket is gone and the topic
\* index still holds another socket
C26_Witness ==
  \E b \in BIds :
    /\ bcast[b].pc = "done" /\ bcast[b].op = "send" /\ bcast[b].ret = "false"
    /\ bcast[b].cur \notin DOMAIN connections
    /\ \E t \in DOMAIN subscribers : subscribers[t] # {}

\* C27: an admitted connection whose heartbeat pings fail from some point on
\* is eventually removed from both indices and its heartbeat task ends; and a
\* socket that is not in the connection index never has a heartbeat task
\* that is still sleeping or pinging
PingSucceeds(c) == HeartbeatPingDone(c, TRUE)

HeartbeatOver(c) ==
  /\ c \notin DOMAIN connections
  /\ \A t \in Topics : c \notin SubscribersIn(subscribers, t)
  /\ c \notin heartbeat_tasks
  /\ hb_pc[c] = "done"

C27_FailingConnectionRemoved ==
  /\ \A c \in Conns :
       <>[][~PingSucceeds(c)]_vars => ((c \in DOMAIN connections) ~> HeartbeatOver(c))
  /\ [](\A c \in Conns : c \notin DOMAIN connections => hb_pc[c] \in {"none", "done"})

\* a heartbeat ping failed: the task is over, the socket is in neither index,
\* and another socket is still connected with its heartbeat asleep
C27_Witness ==
  \E c, d \in Conns :
    /\ connect_pc[c] = "true" /\ HeartbeatOver(c)
    /\ c \notin h_live
    /\ d \in DOMAIN connections /\ hb_pc[d] = "sleep"

\* C28: in start_all() every registered collector is initialized in turn,
\* whether or not the initialize() before it raised: each initialize() that
\* ends, ends with either one new run task for its collector or none, and
\* start_all goes on to the next collector or returns
C28_InitFailureContained ==
  [][start_all_pc' # start_all_pc =>
       IF start_all_pc.pc = "idle"
       THEN /\ tasks' = tasks
            /\ start_all_pc'.pc = "init"
            /\ Range(start_all_pc'.todo) = collectors
       ELSE LET c == Head(start_all_pc.todo)
                rest == Tail(start_all_pc.todo)
            IN /\ \/ tasks' = tasks
                  \/ /\ Len(tasks') = Len(tasks) + 1
                     /\ SubSeq(tasks', 1, Len(tasks)) = tasks
                     /\ tasks'[Len(tasks')].collector = c
               /\ start_all_pc'.todo = rest
               /\ start_all_pc'.pc = IF rest = <<>> THEN "idle" ELSE "init"]_vars

\* start_all() has returned: the first collector's initialize() raised and it
\* has no run task, the second one was initialized after it and its run task
\* has connected
C28_Witness ==
  /\ start_all_pc.pc = "idle" /\ start_all_left = 0
  /\ \E c, d \in collectors :
       /\ c < d
       /\ TasksOf(c) = {}
       /\ \E i \in TasksOf(d) : tasks[i].pc = "collect"

\* ---------------------------------------------------- message loop: claims
\* C29: on no socket and for no topic it newly subscribed to is a historical
\* record written after a live record of that topic: the historical reply is
\* never overtaken by a change event that arrived while it was prepared
C29_HistoryBeforeLive ==
  \A c \in Conns : \A t \in Topics : h_stream[c][t] # "live_historical"

\* C30: when the validation queries of a subscribe request have been
\* answered, a request with any id that is not an active starlisting gets the
\* error invalid_starlisting and changes no subscription, and then the loop
\* waits for the next message; a request with only active ids subscribes the
\* socket, if it is still connected, to every one of them, and gets the
\* success message listing them
C30_SubscribeAllOrNothing ==
  [][\A c \in Clients :
       LET f == sub_pc[c]
           g == sub_pc'[c]
       IN /\ (f.pc = "validate" /\ g # f /\ g.code # "internal_error") =>
               IF \E i \in DOMAIN f.ids : f.ids[i] \notin Topics
               THEN /\ g.pc = "send_error" /\ g.code = "invalid_starlisting"
                    /\ UNCHANGED <<connections, subscribers>>
               ELSE /\ g.pc = "send_success" /\ g.ids = f.ids
                    /\ c \in DOMAIN connections =>
                          /\ connections'[c] = connections[c] \cup Range(f.ids)
                          /\ \A t \in Range(f.ids) : c \in SubscribersIn(subscribers', t)
          /\ (f.pc = "send_error" /\ g # f) =>
               /\ g.pc = "receive"
               /\ \A t \in Topics : SubscribersIn(subscribers', t) \subseteq SubscribersIn(subscribers, t)
          /\ (f.pc = "send_success" /\ g # f) => g.pc \in {"receive", "history"}]_vars

\* a request naming an active and an unknown id has been validated: the
\* error is being written to a connected socket that has no subscription
C30_Witness ==
  \E c \in Clients :
    /\ sub_pc[c].pc = "send_error" /\ sub_pc[c].code = "invalid_starlisting"
    /\ \E i, j \in DOMAIN sub_pc[c].ids :
         sub_pc[c].ids[i] \in Topics /\ sub_pc[c].ids[j] = Unknown
    /\ c \in DOMAIN connections /\ connections[c] = {}
    /\ subscribers = <<>>

\* ------------------------------------------------ collectors: further claims
\* C31: in every run loop each connect() call is followed by exactly one
\* disconnect() call before the next connect() and before the loop is left:
\* a task waiting in connect(), collect() or the retry sleep has one
\* connect() not yet disconnected, and a task that is new, closing or over
\* has none, whatever ended the iteration (failed connect, clean or failing
\* collect, retry limit, stop, cancellation)
C31_OneDisconnectPerConnect ==
  \A i \in TaskIds :
    LET c == tasks[i].collector
    IN /\ tasks[i].pc \in {"connect", "collect", "sleep"} => coll[c].h_pending = 1
       /\ tasks[i].pc \in {"created", "closing", "closing_raise", "done"} =>
            coll[c].h_pending = 0

\* a run loop that connected, lost the stream, was cancelled in its retry
\* sleep and is over
C31_Witness ==
  \E i \in TaskIds :
    LET c == tasks[i].collector
    IN /\ tasks[i].pc = "done" /\ coll[c].status = "error"
       /\ {"connect_ok", "collect_raised", "cancelled"} \subseteq h_events[c]
       /\ coll[c].h_pending = 0 /\ ~coll[c].ws

\* C32: a failing store upsert for a valid candle is contained: the candle is
\* handed to the store once and not again, no exception leaves the loop
\* body, the collector stays Running in collect() with its failure counter
\* unchanged, and a candle that arrives after the failure is processed and,
\* the store answering, stored
C32_StoreFailureContained ==
  [][\A i \in TaskIds, m \in SampleMessages :
       LET c == tasks[i].collector
       IN /\ (/\ Message(i, m, FALSE)
              /\ ~coll[c].stop_event
              /\ collect_one(m, FALSE).rows # <<>>) =>
                /\ Len(c_out'.rows) = 1 /\ ~c_out'.stored
                /\ c_out'.raised = "none"
                /\ tasks'[i].pc = "collect"
                /\ coll[c].status = "running" /\ coll'[c] = coll[c]
          /\ (/\ Message(i, m, TRUE)
              /\ ~coll[c].stop_event
              /\ "store_failed" \in h_events[c]
              /\ collect_one(m, TRUE).rows # <<>>) =>
                /\ Len(c_out'.rows) = 1 /\ c_out'.stored
                /\ coll'[c].last_collection_time
                /\ coll'[c].status = "running"
                /\ coll'[c].retry_count = coll[c].retry_count]_vars

\* a candle was stored by a collector that is still Running after an earlier
\* upsert of its connection failed
C32_Witness ==
  \E i \in TaskIds :
    LET c == tasks[i].collector
    IN /\ tasks[i].pc = "collect" /\ coll[c].status = "running"
       /\ "store_failed" \in h_events[c]
       /\ c_out.stored /\ coll[c].last_collection_time
       /\ coll[c].retry_count = 0

\* the topics a collector owns: the starlistings it loaded (candles), their
\* trading pairs (funding and open interest)
OwnedTopics(c) ==
  {IF IsFunding(c) THEN coll[c].starlistings[j].trading_pair_id
   ELSE coll[c].starlistings[j].id : j \in 1..Len(coll[c].starlistings)}

Connected(c) ==
  \E i \in TaskIds : tasks[i].collector = c /\ tasks[i].pc = "collect"

DistinctSymbols(c) ==
  Cardinality({e[1] : e \in
                 {subscribe_requests(c, coll[c].h_active)[j] :
                    j \in 1..Len(subscribe_requests(c, coll[c].h_active))}})
    = Cardinality({IF IsFunding(c) THEN coll[c].h_active[j].trading_pair_id
                   ELSE coll[c].h_active[j].id : j \in 1..Len(coll[c].h_active)})

C33_MapRebuiltDistinctSymbols ==
  \A c \in Collectors :
    DistinctSymbols(c) =>
      /\ ~coll[c].ws => coll[c].subscriptions = {}
      /\ Connected(c) =>
           /\ {e[2] : e \in coll[c].subscriptions} = OwnedTopics(c)
           /\ Cardinality(coll[c].subscriptions) = Cardinality(OwnedTopics(c))

\* C34: once stop() has been called on a collector, connect() is never
\* started again for it: the stop event stays set, the count of connect()
\* calls stays as it is and no task of the collector moves to connect(),
\* whether stop() came before start(), during connect(), during collect(),
\* during the retry sleep or during disconnect()
C34_NoConnectAfterStop ==
  [][\A c \in Collectors :
       coll[c].stop_event =>
         /\ coll'[c].stop_event
         /\ h_attempts'[c] = h_attempts[c]
         /\ \A i \in TaskIds :
              (tasks[i].collector = c /\ tasks[i].pc # "connect") =>
                 tasks'[i].pc # "connect"]_vars

\* a run task that connected once saw the stop() in collect() and ended
\* Stopped without another connect()
C34_Witness ==
  \E i \in TaskIds :
    LET c == tasks[i].collector
    IN /\ tasks[i].pc = "done" /\ coll[c].stop_event
       /\ coll[c].status = "stopped"
       /\ "stop_seen" \in h_events[c]
       /\ h_attempts[c] = 1

\* C35: the consecutive-failure counter of every collector is between 0 and
\* the configured retry limit in every reachable state, and it is 0 whenever
\* the collector's status is Running
C35_RetryCountBounded ==
  \A c \in Collectors :
    /\ coll[c].retry_count \in 0..collector_max_retries
    /\ coll[c].status = "running" => coll[c].retry_count = 0

\* a collector is Running with the counter back at 0 after a connection that
\* failed and was counted
C35_Witness ==
  \E c \in Collectors :
    /\ coll[c].status = "running" /\ coll[c].retry_count = 0
    /\ collector_max_retries >= 1
    /\ {"connect_failed", "connect_ok"} \subseteq h_events[c]
    /\ h_attempts[c] >= 2

\* ------------------------------------------------------- hub: heartbeats
\* no connect() is waiting in accept(), no broadcast or send is waiting in a
\* write, no heartbeat is waiting in its ping
HubQuiescent ==
  /\ \A c \in Conns : connect_pc[c] # "accept" /\ hb_pc[c] # "send"
  /\ \A b \in BIds : bcast[b].pc # "write"

\* C36: whenever no hub operation is in progress, the connections that have a
\* heartbeat task are exactly the admitted connections: the keys of
\* _heartbeat_tasks are the keys of connections, and a heartbeat loop is
\* running for these and for no other connection
C36_HeartbeatPerConnection ==
  HubQuiescent =>
    /\ heartbeat_tasks = DOMAIN connections
    /\ \A c \in Conns : (hb_pc[c] \in {"sleep", "send"}) <=> (c \in DOMAIN connections)

\* the hub is at rest with one connection admitted and beating, and another
\* removed whose heartbeat task is over
C36_Witness ==
  /\ HubQuiescent
  /\ \E c, d \in Conns :
       /\ c \in DOMAIN connections /\ c \in heartbeat_tasks /\ hb_pc[c] = "sleep"
       /\ connect_pc[d] = "true" /\ d \notin DOMAIN connections
       /\ d \notin heartbeat_tasks /\ hb_pc[d] = "done"

\* the same equality in every state, operations in progress included
HeartbeatTasksMatch ==
  /\ heartbeat_tasks = DOMAIN connections
  /\ \A c \in Conns : (hb_pc[c] \in {"sleep", "send"}) <=> (c \in DOMAIN connections)

C39_AllStoppedAfterStopAll ==
  stop_all_pc.pc = "returned" =>
    \A c \in collectors : coll[c].status = "stopped"

\* ---------------------------------------- funding/OI buffer: further claims
\* C38: a funding/OI collector has at most one flush-loop task, the one its
\* flush_task handle names; it has one exactly while it is connected
\* (connect() returned, disconnect() not yet called) and none once
\* disconnect() has returned or connect() has failed, over any number of
\* connect, fail and reconnect cycles
C38_FlushTaskWhileConnected ==
  /\ (flush_task.pc # "none") <=> (f_pc = "collect")
  /\ f_pc \in {"idle", "failed"} => flush_task = NoFlushTask

\* the collector is connected again, with a flush task asleep, after a
\* disconnect() that cancelled the flush task of the previous connection in
\* the middle of a flush
C38_Witness ==
  /\ f_pc = "collect" /\ f_ws
  /\ flush_task = FlushSleeping
  /\ h_flush = "cancelled"

\* the items of a buffer as upserts of a kind
BufferedUpserts(kind, buf) == {<<kind, buf[j].coin, buf[j].data>> : j \in DOMAIN buf}

\* C40: disconnect() of a connected funding/OI collector discards every
\* buffered value that has not been flushed: both buffers are empty whenever
\* the collector is not connected, so when the next connect() begins; no
\* upsert is issued while it is not connected; and every upsert issued
\* carries a value that is in a buffer at that moment, so a value received
\* after the last disconnect()
C40_DisconnectDiscardsBuffers ==
  [][/\ f_pc' \in {"idle", "failed"} => funding_buffer' = <<>> /\ oi_buffer' = <<>>
     /\ (h_issued' # h_issued /\ h_issued' # <<>>) =>
          /\ f_pc = "collect" /\ f_pc' = "collect"
          /\ h_issued'[Len(h_issued')] \in
                BufferedUpserts("funding", funding_buffer)
                  \cup BufferedUpserts("oi", oi_buffer)]_vars

\* a connected collector that had received values and flushed none of them
\* has been disconnected: both buffers are empty and no flush task is left
C40_Witness ==
  /\ f_pc = "idle" /\ ~f_ws
  /\ h_updates >= 1 /\ h_flush = "none" /\ h_issued = <<>>
  /\ funding_buffer = <<>> /\ oi_buffer = <<>>
  /\ flush_task = NoFlushTask

====
